---- MODULE Spec2Model ----
(***************************************************************************)
(* A model of the eDNE reader (crates/edne) and of the postal-code lookup  *)
(* builder (crates/cli/src/cep_lookup.rs).                                 *)
(*                                                                         *)
(* Text is a sequence of characters; a character is a one-element string.  *)
(* The atom "NBSP" stands for U+00A0, the character the single-byte        *)
(* decoder yields for byte 0xA0, which Rust's str::trim treats as          *)
(* whitespace; "VT" stands for U+000B, "NEL" for U+0085, "E_ACUTE" for     *)
(* U+00E9, and "U+hhhh" (four to six upper-case hexadecimal digits) for    *)
(* the code point hhhh of any other character that is not written as      *)
(* itself; a character has one spelling only.                              *)
(*                                                                         *)
(* The specifications share the variables:                                 *)
(*   SpecId         the identifier constructors (models/*.rs)              *)
(*   SpecParse      the line enumerator, line parsers and collections      *)
(*   SpecText       the text functions, field extractors and line parsers  *)
(*   Spec           the lookup builder: add_<kind> calls, then build(),    *)
(*                  then inserts of the holder's own on the lookup         *)
(*   SpecAccum      the add_<kind> calls, with the list of the calls made  *)
(*   SpecAccumBuild the same list of calls, followed by build() and inserts*)
(*   SpecLookup     the files loaded one by one, build(), then queries and *)
(*                  inserts on the lookup                                  *)
(***************************************************************************)
EXTENDS Integers, Sequences, FiniteSets, TLC

VARIABLES
    idOp, idArg, idRes,
    kind, phys, finalEol, out,
    localities, neighborhoods, addresses, big_users, operational_units, cpcs,
    lookup, inserted, pc, calls

idVars == <<idOp, idArg, idRes>>
parseVars == <<kind, phys, finalEol, out>>
stagingVars == <<localities, neighborhoods, addresses, big_users, operational_units, cpcs>>
buildVars == <<stagingVars, lookup, inserted, pc, calls>>
vars == <<idVars, parseVars, buildVars>>

None == [some |-> FALSE]
Some(x) == [some |-> TRUE, val |-> x]

(***************************************************************************)
(* Text helpers: str::trim                                                 *)
(***************************************************************************)
\* char::is_whitespace, the code points with the White_Space property:
\* U+0009..U+000D, U+0020, U+0085, U+00A0 and those above U+07FF.
WideWhiteSpace ==
    {"U+1680", "U+2000", "U+2001", "U+2002", "U+2003", "U+2004", "U+2005", "U+2006",
     "U+2007", "U+2008", "U+2009", "U+200A", "U+2028", "U+2029", "U+202F", "U+205F",
     "U+3000"}

WhiteSpace == {"\t", "\n", "VT", "\f", "\r", " ", "NEL", "NBSP"} \cup WideWhiteSpace

RECURSIVE TrimStart(_)
TrimStart(s) ==
    IF s = <<>> THEN <<>>
    ELSE IF Head(s) \in WhiteSpace THEN TrimStart(Tail(s))
    ELSE s

RECURSIVE TrimEnd(_)
TrimEnd(s) ==
    IF s = <<>> THEN <<>>
    ELSE IF s[Len(s)] \in WhiteSpace THEN TrimEnd(SubSeq(s, 1, Len(s) - 1))
    ELSE s

Trim(s) == TrimEnd(TrimStart(s))

(***************************************************************************)
(* str::parse::<u32>: an optional '+', then one or more ASCII digits,      *)
(* accumulated with checked multiplication and addition in 32 bits.        *)
(***************************************************************************)
Digits == {"0", "1", "2", "3", "4", "5", "6", "7", "8", "9"}

DigitVal(c) ==
    CASE c = "0" -> 0 [] c = "1" -> 1 [] c = "2" -> 2 [] c = "3" -> 3
      [] c = "4" -> 4 [] c = "5" -> 5 [] c = "6" -> 6 [] c = "7" -> 7
      [] c = "8" -> 8 [] c = "9" -> 9

\* u32::MAX = 4294967295 = U32MaxDiv10 * 10 + U32MaxMod10
U32MaxDiv10 == 429496729
U32MaxMod10 == 5

NotANumber == [ok |-> FALSE]

RECURSIVE U32Accumulate(_, _)
U32Accumulate(ds, acc) ==
    IF ds = <<>> THEN [ok |-> TRUE, v |-> acc]
    ELSE IF Head(ds) \notin Digits THEN NotANumber
    ELSE IF acc > U32MaxDiv10 THEN NotANumber
    ELSE IF acc = U32MaxDiv10 /\ DigitVal(Head(ds)) > U32MaxMod10 THEN NotANumber
    ELSE U32Accumulate(Tail(ds), acc * 10 + DigitVal(Head(ds)))

ParseU32(s) ==
    IF s = <<>> THEN NotANumber
    ELSE IF Head(s) \in {"+", "-"} /\ Len(s) = 1 THEN NotANumber
    ELSE IF Head(s) = "+" THEN U32Accumulate(Tail(s), 0)
    ELSE U32Accumulate(s, 0)

DigitChar(d) == <<"0", "1", "2", "3", "4", "5", "6", "7", "8", "9">>[d + 1]

\* Display of a u32: its decimal digits, most significant first.
RECURSIVE ToDecimal(_)
ToDecimal(n) ==
    IF n < 10 THEN <<DigitChar(n)>>
    ELSE Append(ToDecimal(n \div 10), DigitChar(n % 10))

(***************************************************************************)
(* Identifier types (models/*.rs).  The seven types share one shape.       *)
(***************************************************************************)
IdTypes ==
    {"LocalityId", "NeighborhoodId", "AddressId", "BigUserId", "StreetId",
     "OperationalUnitId", "CpcId"}

Id(ty, v) == [ty |-> ty, v |-> v]
IdOk(ty, v) == [tag |-> "Ok", id |-> Id(ty, v)]
IdErrZero(ty) == [tag |-> "Err", ty |-> ty, err |-> "Zero"]
IdErrInvalidFormat(ty, s) == [tag |-> "Err", ty |-> ty, err |-> "InvalidFormat", text |-> s]

\* <Id>::new
IdNew(ty, v) == IdOk(ty, v)

\* A try_from that forgets the zero check.
IdTryFromUnchecked(ty, v) == IdOk(ty, v)

\* TryFrom<u32>::try_from
IdTryFrom(ty, v) ==
    IF v = 0 THEN IdErrZero(ty) ELSE IdOk(ty, v)

\* A from_str that parses the text without trimming it.
IdFromStrNoTrim(ty, s) ==
    IF ParseU32(s).ok THEN IdTryFrom(ty, ParseU32(s).v)
    ELSE IdErrInvalidFormat(ty, s)

\* FromStr::from_str
IdFromStr(ty, s) ==
    IF ParseU32(Trim(s)).ok THEN IdTryFrom(ty, ParseU32(Trim(s)).v)
    ELSE IdErrInvalidFormat(ty, s)

\* Display for an identifier
IdDisplay(id) == ToDecimal(id.v)

(***************************************************************************)
(* Enumerations (models/uf.rs, locality.rs, address.rs,                    *)
(* operational_unit.rs).  A state code is represented by its two letters.  *)
(***************************************************************************)
Chars(s) == [i \in 1..Len(s) |-> SubSeq(s, i, i)]

LowerLetters == Chars("abcdefghijklmnopqrstuvwxyz")
UpperLetters == Chars("ABCDEFGHIJKLMNOPQRSTUVWXYZ")

\* char::to_ascii_uppercase
ToAsciiUpperChar(c) ==
    IF \E i \in 1..Len(LowerLetters) : LowerLetters[i] = c
    THEN UpperLetters[CHOOSE i \in 1..Len(LowerLetters) : LowerLetters[i] = c]
    ELSE c

\* str::to_ascii_uppercase
ToAsciiUpper(s) == [i \in 1..Len(s) |-> ToAsciiUpperChar(s[i])]

\* The characters that take two bytes in UTF-8: U+0080..U+07FF, three of
\* them written by name.
NonAscii ==
    LET hex == {"0", "1", "2", "3", "4", "5", "6", "7", "8", "9",
                "A", "B", "C", "D", "E", "F"}
        low == {"0", "1", "2", "3", "4", "5", "6", "7"}
    IN  {"NEL", "NBSP", "E_ACUTE"} \cup
        ({"U+0" \o a \o b \o c : a \in low, b \in hex, c \in hex}
            \ ({"U+00" \o b \o c : b \in low, c \in hex}
                  \cup {"U+0085", "U+00A0", "U+00E9"}))

\* char::len_utf8: one byte below U+0080 (a character written as itself,
\* the vertical tab, or a control character written by code point), two
\* below U+0800, three below U+10000 (an atom of four hexadecimal digits),
\* four from there on.
Utf8Len(c) ==
    IF \/ Len(c) = 1
       \/ c \in {"VT", "U+007F"}
       \/ c \in {"U+000" \o d : d \in {"0", "1", "2", "3", "4", "5", "6", "7", "8", "E", "F"}}
       \/ c \in {"U+001" \o d : d \in {"0", "1", "2", "3", "4", "5", "6", "7", "8", "9",
                                         "A", "B", "C", "D", "E", "F"}}
    THEN 1
    ELSE IF c \in NonAscii THEN 2
    ELSE IF Len(c) = 6 THEN 3
    ELSE 4

\* str::len: the length in bytes
RECURSIVE ByteLen(_)
ByteLen(s) == IF s = <<>> THEN 0 ELSE Utf8Len(Head(s)) + ByteLen(Tail(s))

UfCodes ==
    {Chars("AC"), Chars("AL"), Chars("AP"), Chars("AM"), Chars("BA"), Chars("CE"),
     Chars("DF"), Chars("ES"), Chars("GO"), Chars("MA"), Chars("MT"), Chars("MS"),
     Chars("MG"), Chars("PA"), Chars("PB"), Chars("PR"), Chars("PE"), Chars("PI"),
     Chars("RJ"), Chars("RN"), Chars("RS"), Chars("RO"), Chars("RR"), Chars("SC"),
     Chars("SP"), Chars("SE"), Chars("TO")}

EnumOk(v) == [tag |-> "Ok", v |-> v]
EnumErr(ty, e, text) == [tag |-> "Err", ty |-> ty, err |-> e, text |-> text]

\* Uf::from_str
UfFromStr(s) ==
    LET trimmed == Trim(s) IN
    IF trimmed = <<>> THEN [tag |-> "Err", ty |-> "Uf", err |-> "Empty"]
    ELSE IF ByteLen(trimmed) # 2
        THEN [tag |-> "Err", ty |-> "Uf", err |-> "WrongLength", len |-> ByteLen(trimmed)]
    ELSE IF ToAsciiUpper(trimmed) \in UfCodes THEN EnumOk(ToAsciiUpper(trimmed))
    ELSE EnumErr("Uf", "InvalidCode", trimmed)

\* LocalitySituation::from_str
LocalitySituationFromStr(s) ==
    LET t == Trim(s) IN
    CASE t = <<"0">> -> EnumOk("NotCoded")
      [] t = <<"1">> -> EnumOk("Coded")
      [] t = <<"2">> -> EnumOk("DistrictOrVillage")
      [] t = <<"3">> -> EnumOk("CodingInProgress")
      [] OTHER -> EnumErr("LocalitySituation", "InvalidCode", t)

\* LocalityType::from_str
LocalityTypeFromStr(s) ==
    LET t == ToAsciiUpper(Trim(s)) IN
    CASE t = <<"D">> -> EnumOk("District")
      [] t = <<"M">> -> EnumOk("Municipality")
      [] t = <<"P">> -> EnumOk("Village")
      [] OTHER -> EnumErr("LocalityType", "InvalidCode", t)

\* StreetTypeIndicator::from_str
StreetTypeIndicatorFromStr(s) ==
    LET t == ToAsciiUpper(Trim(s)) IN
    CASE t = <<"S">> -> EnumOk("Yes")
      [] t = <<"N">> -> EnumOk("No")
      [] OTHER -> EnumErr("StreetTypeIndicator", "InvalidCode", t)

\* PostBoxIndicator::from_str
PostBoxIndicatorFromStr(s) ==
    LET t == ToAsciiUpper(Trim(s)) IN
    CASE t = <<"S">> -> EnumOk("Yes")
      [] t = <<"N">> -> EnumOk("No")
      [] OTHER -> EnumErr("PostBoxIndicator", "InvalidCode", t)

(***************************************************************************)
(* EdneParser (parser/base.rs)                                             *)
(***************************************************************************)
FIELD_SEPARATOR == "@"

\* The positions of character c in s, in increasing order.
Positions(s, c) == SelectSeq([i \in 1..Len(s) |-> i], LAMBDA i : s[i] = c)

\* str::split_inclusive('\n'): the pieces of s, each ending with its '\n'
\* (the last piece may have none); the empty text has no piece.
SplitInclusive(s) ==
    LET ps == Positions(s, "\n")
        n == Len(ps)
        last == IF n = 0 THEN 0 ELSE ps[n]
        from(k) == IF k = 1 THEN 1 ELSE ps[k - 1] + 1
        to(k) == IF k = n + 1 THEN Len(s) ELSE ps[k]
    IN  [k \in 1..(IF last < Len(s) THEN n + 1 ELSE n) |-> SubSeq(s, from(k), to(k))]

\* One line of str::lines: the piece without its "\n" or "\r\n".
StripLineEnding(piece) ==
    IF piece = <<>> \/ piece[Len(piece)] # "\n" THEN piece
    ELSE LET l == SubSeq(piece, 1, Len(piece) - 1) IN
         IF l # <<>> /\ l[Len(l)] = "\r" THEN SubSeq(l, 1, Len(l) - 1) ELSE l

\* str::lines
StrLines(content) ==
    LET pieces == SplitInclusive(content) IN
    [i \in 1..Len(pieces) |-> StripLineEnding(pieces[i])]

\* A lines() that numbers only the lines it yields.
LinesRenumbered(content) ==
    LET kept == SelectSeq(StrLines(content), LAMBDA l : Trim(l) # <<>>) IN
    [i \in 1..Len(kept) |-> <<i, kept[i]>>]

\* EdneParser::lines: (1-based line number, text) of the non-blank lines
Lines(content) ==
    LET all == StrLines(content)
        numbered == [i \in 1..Len(all) |-> <<i, all[i]>>]
    IN  SelectSeq(numbered, LAMBDA p : Trim(p[2]) # <<>>)

\* str::split(separator): the texts between the separators, empty ones included
Split(s, sep) ==
    LET ps == Positions(s, sep)
        n == Len(ps)
        from(k) == IF k = 1 THEN 1 ELSE ps[k - 1] + 1
        to(k) == IF k = n + 1 THEN Len(s) ELSE ps[k] - 1
    IN  [k \in 1..(n + 1) |-> SubSeq(s, from(k), to(k))]

\* A parse_line that drops the empty fields.
ParseLineNonEmpty(line) ==
    SelectSeq(Split(line, FIELD_SEPARATOR), LAMBDA f : f # <<>>)

\* EdneParser::parse_line
ParseLine(line) == Split(line, FIELD_SEPARATOR)

ErrFieldCount(expected, got, n) ==
    [tag |-> "Err", err |-> "FieldCount", expected |-> expected, got |-> got,
     line_number |-> n]
ErrEmptyField(name, n) ==
    [tag |-> "Err", err |-> "EmptyField", field_name |-> name, line_number |-> n]
ErrInvalidValue(name, value, reason, n) ==
    [tag |-> "Err", err |-> "InvalidValue", field_name |-> name, value |-> value,
     reason |-> reason, line_number |-> n]

\* A parse_line_checked that reports the number of separators as the count.
ParseLineCheckedSeparators(line, expected_count, line_number) ==
    LET fields == ParseLine(line) IN
    IF Len(fields) # expected_count
    THEN ErrFieldCount(expected_count, Len(fields) - 1, line_number)
    ELSE [tag |-> "Ok", fields |-> fields]

\* EdneParser::parse_line_checked
ParseLineChecked(line, expected_count, line_number) ==
    LET fields == ParseLine(line) IN
    IF Len(fields) # expected_count
    THEN ErrFieldCount(expected_count, Len(fields), line_number)
    ELSE [tag |-> "Ok", fields |-> fields]

\* A required_field that returns the field without its surrounding whitespace.
RequiredFieldTrimmed(field, field_name, line_number) ==
    IF Trim(field) = <<>> THEN ErrEmptyField(field_name, line_number)
    ELSE [tag |-> "Ok", v |-> Trim(field)]

\* EdneParser::required_field
RequiredField(field, field_name, line_number) ==
    IF Trim(field) = <<>> THEN ErrEmptyField(field_name, line_number)
    ELSE [tag |-> "Ok", v |-> field]

\* An optional_field that returns the field without its surrounding whitespace.
OptionalFieldTrimmed(field) ==
    IF Trim(field) = <<>> THEN None ELSE Some(Trim(field))

\* EdneParser::optional_field
OptionalField(field) ==
    IF Trim(field) = <<>> THEN None ELSE Some(field)

(***************************************************************************)
(* The six line parsers (parser/localities.rs, neighborhoods.rs,           *)
(* addresses.rs, big_users.rs, operational_units.rs, cpcs.rs).  Each is a  *)
(* straight sequence of field extractions, every one returning early on    *)
(* its error; the tables list them in the order the code performs them.    *)
(*   f     position of the field in the line (1-based)                     *)
(*   name  the field name carried by errors                                *)
(*   req   required_field (TRUE) or optional_field (FALSE)                 *)
(*   conv  the from_str applied to the text ("Text": none)                 *)
(*   into  the record field that receives the value                        *)
(***************************************************************************)
Step(f, name, req, conv, ty, into) ==
    [f |-> f, name |-> name, req |-> req, conv |-> conv, ty |-> ty, into |-> into]

LOCALITY_FIELD_COUNT == 9
NEIGHBORHOOD_FIELD_COUNT == 5
ADDRESS_FIELD_COUNT == 11
BIG_USER_FIELD_COUNT == 9
OPERATIONAL_UNIT_FIELD_COUNT == 10
CPC_FIELD_COUNT == 6

\* A locality parser that extracts the parent before the type.
LocalityStepsParentFirst ==
    << Step(1, "LOC_NU", TRUE, "Id", "LocalityId", "id"),
       Step(2, "UFE_SG", TRUE, "Uf", "", "uf"),
       Step(3, "LOC_NO", TRUE, "Text", "", "name"),
       Step(5, "LOC_IN_SIT", TRUE, "Situation", "", "situation"),
       Step(7, "LOC_NU_SUB", FALSE, "Id", "LocalityId", "subordinate_to"),
       Step(6, "LOC_IN_TIPO_LOC", TRUE, "LocalityType", "", "locality_type"),
       Step(4, "CEP", FALSE, "Text", "", "cep"),
       Step(8, "LOC_NO_ABREV", FALSE, "Text", "", "abbreviated_name"),
       Step(9, "MUN_NU", FALSE, "Text", "", "ibge_code") >>

LocalitySteps ==
    << Step(1, "LOC_NU", TRUE, "Id", "LocalityId", "id"),
       Step(2, "UFE_SG", TRUE, "Uf", "", "uf"),
       Step(3, "LOC_NO", TRUE, "Text", "", "name"),
       Step(5, "LOC_IN_SIT", TRUE, "Situation", "", "situation"),
       Step(6, "LOC_IN_TIPO_LOC", TRUE, "LocalityType", "", "locality_type"),
       Step(4, "CEP", FALSE, "Text", "", "cep"),
       Step(7, "LOC_NU_SUB", FALSE, "Id", "LocalityId", "subordinate_to"),
       Step(8, "LOC_NO_ABREV", FALSE, "Text", "", "abbreviated_name"),
       Step(9, "MUN_NU", FALSE, "Text", "", "ibge_code") >>

NeighborhoodSteps ==
    << Step(1, "BAI_NU", TRUE, "Id", "NeighborhoodId", "id"),
       Step(2, "UFE_SG", TRUE, "Uf", "", "uf"),
       Step(3, "LOC_NU", TRUE, "Id", "LocalityId", "locality_id"),
       Step(4, "BAI_NO", TRUE, "Text", "", "name"),
       Step(5, "BAI_NO_ABREV", FALSE, "Text", "", "abbreviated_name") >>

AddressSteps ==
    << Step(1, "LOG_NU", TRUE, "Id", "AddressId", "id"),
       Step(2, "UFE_SG", TRUE, "Uf", "", "uf"),
       Step(3, "LOC_NU", TRUE, "Id", "LocalityId", "locality_id"),
       Step(4, "BAI_NU_INI", TRUE, "Id", "NeighborhoodId", "neighborhood_id_start"),
       Step(5, "BAI_NU_FIM", FALSE, "Id", "NeighborhoodId", "neighborhood_id_end"),
       Step(6, "LOG_NO", TRUE, "Text", "", "name"),
       Step(7, "LOG_COMPLEMENTO", FALSE, "Text", "", "complement"),
       Step(8, "CEP", TRUE, "Text", "", "cep"),
       Step(9, "TLO_TX", TRUE, "Text", "", "street_type"),
       Step(10, "LOG_STA_TLO", FALSE, "StreetType", "", "street_type_indicator"),
       Step(11, "LOG_NO_ABREV", FALSE, "Text", "", "abbreviated_name") >>

BigUserSteps ==
    << Step(1, "GRU_NU", TRUE, "Id", "BigUserId", "id"),
       Step(2, "UFE_SG", TRUE, "Uf", "", "uf"),
       Step(3, "LOC_NU", TRUE, "Id", "LocalityId", "locality_id"),
       Step(4, "BAI_NU", TRUE, "Id", "NeighborhoodId", "neighborhood_id"),
       Step(5, "LOG_NU", FALSE, "Id", "StreetId", "street_id"),
       Step(6, "GRU_NO", TRUE, "Text", "", "name"),
       Step(7, "GRU_ENDERECO", TRUE, "Text", "", "address"),
       Step(8, "CEP", TRUE, "Text", "", "cep"),
       Step(9, "GRU_NO_ABREV", FALSE, "Text", "", "abbreviated_name") >>

OperationalUnitSteps ==
    << Step(1, "UOP_NU", TRUE, "Id", "OperationalUnitId", "id"),
       Step(2, "UFE_SG", TRUE, "Uf", "", "uf"),
       Step(3, "LOC_NU", TRUE, "Id", "LocalityId", "locality_id"),
       Step(4, "BAI_NU", TRUE, "Id", "NeighborhoodId", "neighborhood_id"),
       Step(5, "LOG_NU", FALSE, "Id", "StreetId", "street_id"),
       Step(6, "UOP_NO", TRUE, "Text", "", "name"),
       Step(7, "UOP_ENDERECO", TRUE, "Text", "", "address"),
       Step(8, "CEP", TRUE, "Text", "", "cep"),
       Step(9, "UOP_IN_CP", TRUE, "PostBox", "", "post_box_indicator"),
       Step(10, "UOP_NO_ABREV", FALSE, "Text", "", "abbreviated_name") >>

CpcSteps ==
    << Step(1, "CPC_NU", TRUE, "Id", "CpcId", "id"),
       Step(2, "UFE_SG", TRUE, "Uf", "", "uf"),
       Step(3, "LOC_NU", TRUE, "Id", "LocalityId", "locality_id"),
       Step(4, "CPC_NO", TRUE, "Text", "", "name"),
       Step(5, "CPC_ENDERECO", TRUE, "Text", "", "address"),
       Step(6, "CEP", TRUE, "Text", "", "cep") >>

\* The from_str a field's text goes through; an identifier is stored as its u32.
Convert(conv, ty, text) ==
    CASE conv = "Text" -> [tag |-> "Ok", v |-> text]
      [] conv = "Id" ->
            LET p == IdFromStr(ty, text) IN
            IF p.tag = "Ok" THEN [tag |-> "Ok", v |-> p.id.v] ELSE p
      [] conv = "Uf" -> UfFromStr(text)
      [] conv = "Situation" -> LocalitySituationFromStr(text)
      [] conv = "LocalityType" -> LocalityTypeFromStr(text)
      [] conv = "StreetType" -> StreetTypeIndicatorFromStr(text)
      [] conv = "PostBox" -> PostBoxIndicatorFromStr(text)

\* An extraction that takes an optional field it cannot convert as absent.
ExtractFieldLenient(step, fields, line_number) ==
    LET field == fields[step.f] IN
    IF step.req
    THEN LET r == RequiredField(field, step.name, line_number) IN
         IF r.tag = "Err" THEN r
         ELSE LET c == Convert(step.conv, step.ty, r.v) IN
              IF c.tag = "Err"
              THEN ErrInvalidValue(step.name, r.v, c, line_number)
              ELSE [tag |-> "Ok", v |-> c.v]
    ELSE LET o == OptionalField(field) IN
         IF ~o.some THEN [tag |-> "Ok", v |-> None]
         ELSE LET c == Convert(step.conv, step.ty, o.val) IN
              IF c.tag = "Err"
              THEN [tag |-> "Ok", v |-> None]
              ELSE [tag |-> "Ok", v |-> Some(c.v)]

\* One extraction: required_field(..)? or optional_field(..), then
\* from_str(..).map_err(InvalidValue {field_name, value, reason, line_number})?
ExtractField(step, fields, line_number) ==
    LET field == fields[step.f] IN
    IF step.req
    THEN LET r == RequiredField(field, step.name, line_number) IN
         IF r.tag = "Err" THEN r
         ELSE LET c == Convert(step.conv, step.ty, r.v) IN
              IF c.tag = "Err"
              THEN ErrInvalidValue(step.name, r.v, c, line_number)
              ELSE [tag |-> "Ok", v |-> c.v]
    ELSE LET o == OptionalField(field) IN
         IF ~o.some THEN [tag |-> "Ok", v |-> None]
         ELSE LET c == Convert(step.conv, step.ty, o.val) IN
              IF c.tag = "Err"
              THEN ErrInvalidValue(step.name, o.val, c, line_number)
              ELSE [tag |-> "Ok", v |-> Some(c.v)]

RECURSIVE RunSteps(_, _, _, _, _)
RunSteps(steps, fields, line_number, i, rec) ==
    IF i > Len(steps) THEN [tag |-> "Ok", rec |-> rec]
    ELSE LET r == ExtractField(steps[i], fields, line_number) IN
         IF r.tag = "Err" THEN r
         ELSE RunSteps(steps, fields, line_number, i + 1, (steps[i].into :> r.v) @@ rec)

\* A line parser that extracts the fields it finds before it counts them.
ParseRecordLineFieldsFirst(steps, count, line, line_number) ==
    LET fields == ParseLine(line)
        r == IF Len(fields) >= count
             THEN RunSteps(steps, fields, line_number, 1, <<>>)
             ELSE [tag |-> "Ok", rec |-> <<>>]
    IN  IF r.tag = "Err" THEN r
        ELSE IF Len(fields) # count THEN ErrFieldCount(count, Len(fields), line_number)
        ELSE r

ParseRecordLine(steps, count, line, line_number) ==
    LET c == ParseLineChecked(line, count, line_number) IN
    IF c.tag = "Err" THEN c
    ELSE RunSteps(steps, c.fields, line_number, 1, <<>>)

ParseLocalityLine(line, n) == ParseRecordLine(LocalitySteps, LOCALITY_FIELD_COUNT, line, n)
ParseNeighborhoodLine(line, n) ==
    ParseRecordLine(NeighborhoodSteps, NEIGHBORHOOD_FIELD_COUNT, line, n)
ParseAddressLine(line, n) == ParseRecordLine(AddressSteps, ADDRESS_FIELD_COUNT, line, n)
ParseBigUserLine(line, n) == ParseRecordLine(BigUserSteps, BIG_USER_FIELD_COUNT, line, n)
ParseOperationalUnitLine(line, n) ==
    ParseRecordLine(OperationalUnitSteps, OPERATIONAL_UNIT_FIELD_COUNT, line, n)
ParseCpcLine(line, n) == ParseRecordLine(CpcSteps, CPC_FIELD_COUNT, line, n)

Kinds == {"locality", "neighborhood", "address", "big_user", "operational_unit", "cpc"}

FieldCountOf(k) ==
    CASE k = "locality" -> LOCALITY_FIELD_COUNT
      [] k = "neighborhood" -> NEIGHBORHOOD_FIELD_COUNT
      [] k = "address" -> ADDRESS_FIELD_COUNT
      [] k = "big_user" -> BIG_USER_FIELD_COUNT
      [] k = "operational_unit" -> OPERATIONAL_UNIT_FIELD_COUNT
      [] k = "cpc" -> CPC_FIELD_COUNT

ParseKindLine(k, line, n) ==
    CASE k = "locality" -> ParseLocalityLine(line, n)
      [] k = "neighborhood" -> ParseNeighborhoodLine(line, n)
      [] k = "address" -> ParseAddressLine(line, n)
      [] k = "big_user" -> ParseBigUserLine(line, n)
      [] k = "operational_unit" -> ParseOperationalUnitLine(line, n)
      [] k = "cpc" -> ParseCpcLine(line, n)

(***************************************************************************)
(* Collections: a map from identifier to record.                           *)
(***************************************************************************)
EmptyMap == <<>>

\* An insert that keeps the record already stored under the identifier.
InsertKeepFirst(coll, rec) ==
    [x \in DOMAIN coll \cup {rec.id} |-> IF x \in DOMAIN coll THEN coll[x] ELSE rec]

\* <Collection>::insert: HashMap::insert under the record's own identifier
Insert(coll, rec) ==
    [x \in DOMAIN coll \cup {rec.id} |-> IF x = rec.id THEN rec ELSE coll[x]]

\* A parse loop that skips the lines that fail.
RECURSIVE ParseLoopSkipping(_, _, _, _)
ParseLoopSkipping(k, lines, i, coll) ==
    IF i > Len(lines) THEN [tag |-> "Ok", coll |-> coll]
    ELSE LET r == ParseKindLine(k, lines[i][2], lines[i][1]) IN
         IF r.tag = "Err" THEN ParseLoopSkipping(k, lines, i + 1, coll)
         ELSE ParseLoopSkipping(k, lines, i + 1, Insert(coll, r.rec))

\* The loop of parse_with_parser: parse_<kind>_line(..)? then insert
RECURSIVE ParseLoop(_, _, _, _)
ParseLoop(k, lines, i, coll) ==
    IF i > Len(lines) THEN [tag |-> "Ok", coll |-> coll]
    ELSE LET r == ParseKindLine(k, lines[i][2], lines[i][1]) IN
         IF r.tag = "Err" THEN r
         ELSE ParseLoop(k, lines, i + 1, Insert(coll, r.rec))

\* <Collection>::parse_with_parser
ParseWithParser(k, content) == ParseLoop(k, Lines(content), 1, EmptyMap)

\* <Collection>::from_utf8
FromUtf8(k, content) == ParseWithParser(k, content)

(***************************************************************************)
(* Specification SpecParse: a source text is parsed by one of the six      *)
(* collection parsers, or enumerated by EdneParser::lines.                 *)
(* The source is given by its physical lines; Content joins them with      *)
(* "\n".  A physical line ending in "\r" is a line of a CRLF file.         *)
(***************************************************************************)
MaxLines == 3

CR == <<"\r">>

LocalityLines ==
    { Chars("7@AC@Rio@69900000@0@M@@RB@12"),
      Chars(" 07 @ac@Acre@@1@d@7@@") \o CR,
      Chars("8@SP@Sao@69900001@3@P@7@S@"),
      Chars("9@AC@X@69900002@0@P"),
      Chars("0@AC@Zero@@1@M@@@"),
      Chars("  ") }

NeighborhoodLines ==
    { Chars("7@AC@16@Centro@Ctr"),
      Chars("+7@ac@16@Bosque@") \o CR,
      Chars("8@AC@16@Base@"),
      Chars("9@AC@16@Extra@E@"),
      Chars("9@AC@16@ @x"),
      <<" ", "NBSP">> }

AddressLines ==
    { Chars("7@AC@16@5@@Nelson@@69900010@Rua@S@RN"),
      Chars("007@AC@16@5@6@Brasil@lado par@69900011@Avenida@n@") \o CR,
      Chars("8@AC@17@5@@Acre@@69900010@Rua@@"),
      Chars("9@AC@16@5@@X@@69900012@Rua@S"),
      Chars("9@AC@16@5@@X@@69900012@Rua@X@"),
      <<"\f">> }

BigUserLines ==
    { Chars("7@AC@16@5@@Banco@Rua A 1@69900020@Bco"),
      Chars(" 7@AC@16@5@3@Forum@Rua B 2@69900021@") \o CR,
      Chars("8@AC@16@5@@Sesc@Rua C 3@69900020@"),
      Chars("9@AC@16@5@@X@Rua D@69900022"),
      Chars("9@ZZ@16@5@@X@Rua D@69900022@"),
      <<>> }

OperationalUnitLines ==
    { Chars("7@AC@16@5@@AC Centro@Rua E 5@69900030@S@ACC"),
      Chars("7 @AC@16@5@3@AGF Sul@Rua F 6@69900031@n@") \o CR,
      Chars("8@AC@16@5@@CDD@Rua G 7@69900030@N@"),
      Chars("9@AC@16@5@@X@Rua H@69900032@S@X@"),
      Chars("9@AC@16@5@0@X@Rua H@69900032@S@"),
      Chars("   ") }

CpcLines ==
    { Chars("7@AL@158@Mutirao@Quadra 1@57100990"),
      Chars("07@AL@158@Utinga@Rua H@57100993") \o CR,
      Chars("8@AL@184@Gulandim@Povoado@57100990"),
      Chars("9@AL@158@X"),
      Chars("9@AL@abc@X@Pov@57100991"),
      <<>> }

SourceLines(k) ==
    CASE k = "locality" -> LocalityLines
      [] k = "neighborhood" -> NeighborhoodLines
      [] k = "address" -> AddressLines
      [] k = "big_user" -> BigUserLines
      [] k = "operational_unit" -> OperationalUnitLines
      [] k = "cpc" -> CpcLines

SeqsUpTo(S, n) == UNION {[1..m -> S] : m \in 0..n}

\* The source text: the physical lines, "\n" after each but the last, and
\* after the last one too when the text ends with a line ending.
RECURSIVE Content(_, _)
Content(ls, eol) ==
    IF ls = <<>> THEN <<>>
    ELSE IF Len(ls) = 1 THEN (IF eol THEN Append(ls[1], "\n") ELSE ls[1])
    ELSE Append(ls[1], "\n") \o Content(Tail(ls), eol)

NotCalled == [tag |-> "None"]

ParseInit ==
    /\ kind \in Kinds
    /\ phys \in SeqsUpTo(SourceLines(kind), MaxLines)
    /\ finalEol \in (IF phys = <<>> THEN {FALSE} ELSE BOOLEAN)
    /\ out = NotCalled

ParseIdle ==
    /\ kind = "locality"
    /\ phys = <<>>
    /\ finalEol = FALSE
    /\ out = NotCalled

\* <Collection>::from_utf8(content)
FromUtf8Call ==
    /\ out = NotCalled
    /\ out' = FromUtf8(kind, Content(phys, finalEol))
    /\ UNCHANGED <<kind, phys, finalEol>>

\* EdneParser::from_utf8(content).lines().collect()
LinesCall ==
    /\ out = NotCalled
    /\ out' = [tag |-> "Lines", lines |-> Lines(Content(phys, finalEol))]
    /\ UNCHANGED <<kind, phys, finalEol>>

(***************************************************************************)
(* Specification SpecId: one call of an identifier constructor.            *)
(***************************************************************************)
MaxIdValue == 3
MaxIdTextLen == 3

IdAlphabet == {"0", "1", "7", " ", "+", "-", "x"}

\* Texts around the 32-bit limit, beside the short ones.
LongIdTexts ==
    { Chars("2147483647"), Chars("4294967296"), Chars("4294967300"),
      Chars("99999999999"), Chars("00000000001"), Chars(" +0012 "),
      Chars("00000000000") \o <<"NBSP">>,
      <<"\f", "7">>, <<"VT", "7", "NEL">>, <<"U+2003", "1", "U+3000">>, <<"\f", "VT">> }

IdValues == 0..MaxIdValue
IdTexts == SeqsUpTo(IdAlphabet, MaxIdTextLen) \cup LongIdTexts

IdIdle ==
    /\ idOp = "none"
    /\ idArg = 0
    /\ idRes = NotCalled

NewCall(ty, v) ==
    /\ idOp = "none"
    /\ idOp' = "new"
    /\ idArg' = v
    /\ idRes' = IdNew(ty, v)

TryFromCall(ty, v) ==
    /\ idOp = "none"
    /\ idOp' = "try_from"
    /\ idArg' = v
    /\ idRes' = IdTryFrom(ty, v)

FromStrCall(ty, s) ==
    /\ idOp = "none"
    /\ idOp' = "from_str"
    /\ idArg' = s
    /\ idRes' = IdFromStr(ty, s)

(***************************************************************************)
(* CepLookup and CepLookupBuilder (crates/cli/src/cep_lookup.rs)           *)
(***************************************************************************)
\* An insert that stores the entry under its postal code without the
\* surrounding whitespace.
LookupInsertTrimmedKey(ceps, info) ==
    [c \in DOMAIN ceps \cup {Trim(info.cep)} |-> IF c = Trim(info.cep) THEN info ELSE ceps[c]]

\* An insert that stores every entry under one and the same key.
LookupInsertOneKey(ceps, info) ==
    [c \in DOMAIN ceps \cup {<<>>} |-> IF c = <<>> THEN info ELSE ceps[c]]

\* An insert that keeps the entry already stored under the postal code.
LookupInsertKeepFirst(ceps, info) ==
    [c \in DOMAIN ceps \cup {info.cep} |-> IF c \in DOMAIN ceps THEN ceps[c] ELSE info]

\* CepLookup::insert: HashMap::insert under the entry's own postal code
LookupInsert(ceps, info) ==
    [c \in DOMAIN ceps \cup {info.cep} |-> IF c = info.cep THEN info ELSE ceps[c]]

\* An add_<kind> that keeps the record already staged under an identifier.
StageKeepFirst(staged, coll) ==
    [x \in DOMAIN staged \cup DOMAIN coll |-> IF x \in DOMAIN staged THEN staged[x] ELSE coll[x]]

\* An add_<kind> that replaces what was staged by the collection.
StageReplacing(staged, coll) == coll

\* The loop of add_<kind>: for (id, record) in coll.iter() { staged.insert(*id, record.clone()) }
\* The identifiers of one collection are distinct, so its iteration order is immaterial.
Stage(staged, coll) ==
    [x \in DOMAIN staged \cup DOMAIN coll |-> IF x \in DOMAIN coll THEN coll[x] ELSE staged[x]]

\* self.localities.get(&id).map(|l| l.name.clone()).unwrap_or_default()
LocalityName(locs, id) ==
    IF id \in DOMAIN locs THEN locs[id].name ELSE <<>>

\* self.neighborhoods.get(&id).map(|n| n.name.clone())
\* A resolution that yields an empty name for a neighbourhood not staged.
NeighborhoodNameOrEmpty(nbs, id) ==
    IF id \in DOMAIN nbs THEN Some(nbs[id].name) ELSE Some(<<>>)

NeighborhoodName(nbs, id) ==
    IF id \in DOMAIN nbs THEN Some(nbs[id].name) ELSE None

CepInfo(cep, uf, locality, neighborhood, address, complement, type_) ==
    [cep |-> cep, uf |-> uf, locality |-> locality, neighborhood |-> neighborhood,
     address |-> address, complement |-> complement, type_ |-> type_]

\* Stage 1, the body of the loop for a locality that has a postal code.
LocalityInfo(l, locs) ==
    CepInfo(l.cep.val, l.uf, l.name,
            IF l.subordinate_to.some
            THEN (IF l.subordinate_to.val \in DOMAIN locs
                  THEN Some(locs[l.subordinate_to.val].name) ELSE None)
            ELSE None,
            <<>>, None, "UncodedLocality")

\* A stage 2 that puts the street-type label before every street name.
AddressInfoAlwaysTyped(a, locs, nbs) ==
    CepInfo(a.cep, a.uf, LocalityName(locs, a.locality_id),
            NeighborhoodName(nbs, a.neighborhood_id_start),
            a.street_type \o <<" ">> \o a.name,
            a.complement, "Street")

\* Stage 2, the body of the loop for a street.
AddressInfo(a, locs, nbs) ==
    CepInfo(a.cep, a.uf, LocalityName(locs, a.locality_id),
            NeighborhoodName(nbs, a.neighborhood_id_start),
            IF a.street_type_indicator = Some("Yes")
            THEN a.street_type \o <<" ">> \o a.name
            ELSE a.name,
            a.complement, "Street")

\* A stage 3 that leaves the complement of a big user empty.
BigUserInfoUnnamed(u, locs, nbs) ==
    CepInfo(u.cep, u.uf, LocalityName(locs, u.locality_id),
            NeighborhoodName(nbs, u.neighborhood_id),
            u.address, None, "BigUser")

\* Stage 3, the body of the loop for a big user.
BigUserInfo(u, locs, nbs) ==
    CepInfo(u.cep, u.uf, LocalityName(locs, u.locality_id),
            NeighborhoodName(nbs, u.neighborhood_id),
            u.address, Some(u.name), "BigUser")

\* Stage 4, the body of the loop for an operational unit.
OperationalUnitInfo(u, locs, nbs) ==
    CepInfo(u.cep, u.uf, LocalityName(locs, u.locality_id),
            NeighborhoodName(nbs, u.neighborhood_id),
            u.address, Some(u.name), "OperationalUnit")

\* A stage 5 that shows the name of the staged locality as neighbourhood.
CpcInfoLocalityAsNeighborhood(c, locs) ==
    CepInfo(c.cep, c.uf, LocalityName(locs, c.locality_id),
            IF c.locality_id \in DOMAIN locs THEN Some(locs[c.locality_id].name) ELSE None,
            c.address, Some(c.name), "Cpc")

\* Stage 5, the body of the loop for a CPC.
CpcInfo(c, locs) ==
    CepInfo(c.cep, c.uf, LocalityName(locs, c.locality_id),
            None, c.address, Some(c.name), "Cpc")

\* The orders in which HashMap::values may visit the records of a map.
Orders(m) ==
    {o \in [1..Cardinality(DOMAIN m) -> DOMAIN m] :
        \A i, j \in DOMAIN o : o[i] = o[j] => i = j}

Ins(src, id, info) == [src |-> src, id |-> id, info |-> info]

\* The lookup.insert calls of each stage, in the order o of the stage's loop.
\* A stage 1 that looks at the situation instead of the postal code.
LocalityInsertsNotCodedOnly(locs, o) ==
    LET uncoded == SelectSeq(o, LAMBDA id : locs[id].cep.some
                                            /\ locs[id].situation = "NotCoded") IN
    [i \in 1..Len(uncoded) |->
        Ins("locality", uncoded[i], LocalityInfo(locs[uncoded[i]], locs))]

LocalityInserts(locs, o) ==
    LET withCep == SelectSeq(o, LAMBDA id : locs[id].cep.some) IN
    [i \in 1..Len(withCep) |->
        Ins("locality", withCep[i], LocalityInfo(locs[withCep[i]], locs))]

\* A stage 2 that skips the streets whose locality is not staged.
AddressInsertsResolvedOnly(ads, locs, nbs, o) ==
    LET known == SelectSeq(o, LAMBDA id : ads[id].locality_id \in DOMAIN locs) IN
    [i \in 1..Len(known) |->
        Ins("address", known[i], AddressInfo(ads[known[i]], locs, nbs))]

AddressInserts(ads, locs, nbs, o) ==
    [i \in 1..Len(o) |-> Ins("address", o[i], AddressInfo(ads[o[i]], locs, nbs))]

BigUserInserts(bus, locs, nbs, o) ==
    [i \in 1..Len(o) |-> Ins("big_user", o[i], BigUserInfo(bus[o[i]], locs, nbs))]

OperationalUnitInserts(ous, locs, nbs, o) ==
    [i \in 1..Len(o) |->
        Ins("operational_unit", o[i], OperationalUnitInfo(ous[o[i]], locs, nbs))]

CpcInserts(cs, locs, o) ==
    [i \in 1..Len(o) |-> Ins("cpc", o[i], CpcInfo(cs[o[i]], locs))]

\* A build() that runs the big-user stage last.
BuildInsertsBigUsersLast(s1, s2, s3, s4, s5) == s1 \o s2 \o s4 \o s5 \o s3

\* A build() with a sixth stage that enters every staged neighbourhood under
\* its name.
BuildInsertsWithNeighborhoods(s1, s2, s3, s4, s5) ==
    s1 \o s2 \o s3 \o s4 \o s5 \o
    LET o == CHOOSE x \in Orders(neighborhoods) : TRUE IN
    [i \in 1..Len(o) |->
        Ins("neighborhood", o[i],
            CepInfo(neighborhoods[o[i]].name, neighborhoods[o[i]].uf, <<>>,
                    Some(neighborhoods[o[i]].name), <<>>, None, "Street"))]

\* build(): the five stages in their fixed order
BuildInserts(s1, s2, s3, s4, s5) == s1 \o s2 \o s3 \o s4 \o s5

RECURSIVE InsertAll(_, _)
InsertAll(ceps, ins) ==
    IF ins = <<>> THEN ceps
    ELSE InsertAll(LookupInsert(ceps, Head(ins).info), Tail(ins))

\* Every sequence of lookup.insert calls build() may perform on the staged maps.
BuildRuns ==
    { BuildInserts(LocalityInserts(localities, o1),
                   AddressInserts(addresses, localities, neighborhoods, o2),
                   BigUserInserts(big_users, localities, neighborhoods, o3),
                   OperationalUnitInserts(operational_units, localities, neighborhoods, o4),
                   CpcInserts(cpcs, localities, o5)) :
        <<o1, o2, o3, o4, o5>> \in
            Orders(localities) \X Orders(addresses) \X Orders(big_users)
                \X Orders(operational_units) \X Orders(cpcs) }

Range(f) == {f[i] : i \in DOMAIN f}

(***************************************************************************)
(* The collections handed to the builder: each is what the collection      *)
(* parser returns for a small source.  Postal code 69900000 is carried by  *)
(* records of all five kinds, identifiers 9 and 8 (as a neighbourhood) are *)
(* never staged, locality 2 of the second source is its own parent, and    *)
(* locality 4 is a coded municipality that has a postal code of its own.   *)
(***************************************************************************)
Coll(k, ls) == FromUtf8(k, Content(ls, TRUE)).coll

LocalityCollections ==
    { EmptyMap,
      Coll("locality", << Chars("1@AC@Rio@@1@M@@@") >>),
      Coll("locality", << Chars("1@AC@Rio@@1@M@@@"),
                          Chars("2@AC@Vila@69900000@0@P@1@@") >>),
      Coll("locality", << Chars("2@AC@Povoado@69900001@0@P@2@@"),
                          Chars("4@AC@Sede@69900003@1@M@@@") >>),
      Coll("locality", << Chars("3@SP@Ilha@69900000@0@D@2@@") >>),
      Coll("locality", << Chars("1@AC@Rio@@1@M@@@"),
                          Chars("3@SP@Ilha@69900000@0@D@2@@") >>) }

NeighborhoodCollections ==
    { Coll("neighborhood", << Chars("5@AC@1@Centro@") >>),
      Coll("neighborhood", << Chars("5@AC@1@Bosque@"), Chars("6@AC@1@Base@") >>) }

AddressCollections ==
    { Coll("address", << Chars("7@AC@1@5@@Nelson Mesquita@@69900000@Rua@S@") >>),
      Coll("address", << Chars("7@AC@9@8@@Acre@lado par@69900001@Avenida@N@"),
                         Chars("8@AC@1@6@@Brasil@@69900002@Rua@@") >>) }

BigUserCollections ==
    { Coll("big_user", << Chars("7@AC@1@5@@Banco@Rua A 1@69900000@") >>),
      Coll("big_user", << Chars("8@AC@9@8@3@Forum@Rua B 2@69900002@") >>) }

OperationalUnitCollections ==
    { Coll("operational_unit", << Chars("7@AC@1@5@@AC Centro@Rua E 5@69900000@S@") >>),
      Coll("operational_unit", << Chars("8@AC@9@8@@CDD@Rua G 7@69900001@N@") >>) }

CpcCollections ==
    { Coll("cpc", << Chars("7@AC@1@Mutirao@Quadra 1@69900000") >>),
      Coll("cpc", << Chars("8@AC@9@Gulandim@Povoado@69900002") >>) }

BuildInit ==
    /\ localities = EmptyMap
    /\ neighborhoods = EmptyMap
    /\ addresses = EmptyMap
    /\ big_users = EmptyMap
    /\ operational_units = EmptyMap
    /\ cpcs = EmptyMap
    /\ lookup = EmptyMap
    /\ inserted = {}
    /\ pc = "staging"
    /\ calls = <<>>

\* CepLookupBuilder::add_localities
AddLocalities(c) ==
    /\ pc = "staging"
    /\ localities' = Stage(localities, c)
    /\ UNCHANGED <<neighborhoods, addresses, big_users, operational_units, cpcs,
                   lookup, inserted, pc>>

\* CepLookupBuilder::add_neighborhoods
AddNeighborhoods(c) ==
    /\ pc = "staging"
    /\ neighborhoods' = Stage(neighborhoods, c)
    /\ UNCHANGED <<localities, addresses, big_users, operational_units, cpcs,
                   lookup, inserted, pc>>

\* CepLookupBuilder::add_addresses
AddAddresses(c) ==
    /\ pc = "staging"
    /\ addresses' = Stage(addresses, c)
    /\ UNCHANGED <<localities, neighborhoods, big_users, operational_units, cpcs,
                   lookup, inserted, pc>>

\* CepLookupBuilder::add_big_users
AddBigUsers(c) ==
    /\ pc = "staging"
    /\ big_users' = Stage(big_users, c)
    /\ UNCHANGED <<localities, neighborhoods, addresses, operational_units, cpcs,
                   lookup, inserted, pc>>

\* CepLookupBuilder::add_operational_units
AddOperationalUnits(c) ==
    /\ pc = "staging"
    /\ operational_units' = Stage(operational_units, c)
    /\ UNCHANGED <<localities, neighborhoods, addresses, big_users, cpcs,
                   lookup, inserted, pc>>

\* CepLookupBuilder::add_cpcs
AddCpcs(c) ==
    /\ pc = "staging"
    /\ cpcs' = Stage(cpcs, c)
    /\ UNCHANGED <<localities, neighborhoods, addresses, big_users, operational_units,
                   lookup, inserted, pc>>

\* A build() that gives up when a foreign key matches nothing staged.
BuildStrict ==
    /\ pc = "staging"
    /\ \A id \in DOMAIN addresses : addresses[id].locality_id \in DOMAIN localities
    /\ \A id \in DOMAIN big_users : big_users[id].locality_id \in DOMAIN localities
    /\ \A id \in DOMAIN operational_units :
            operational_units[id].locality_id \in DOMAIN localities
    /\ \A id \in DOMAIN cpcs : cpcs[id].locality_id \in DOMAIN localities
    /\ \E run \in BuildRuns :
        /\ lookup' = InsertAll(EmptyMap, run)
        /\ inserted' = Range(run)
    /\ pc' = "built"
    /\ UNCHANGED stagingVars

\* CepLookupBuilder::build: consumes the builder and returns the lookup.
\* `inserted` records the lookup.insert calls it made.
Build ==
    /\ pc = "staging"
    /\ \E run \in BuildRuns :
        /\ lookup' = InsertAll(EmptyMap, run)
        /\ inserted' = Range(run)
    /\ pc' = "built"
    /\ UNCHANGED stagingVars

\* The entries a holder of the lookup inserts on its own: one under a
\* postal code the staged records carry, one under a code none carries.
OwnEntries ==
    { CepInfo(Chars("69900000"), Chars("RJ"), Chars("Manual"), None, <<>>, None,
              "UncodedLocality"),
      CepInfo(Chars("01000000"), Chars("SP"), Chars("Se"), None, Chars("Praca da Se"),
              None, "Street") }

\* CepLookup::insert(info) on the lookup build() returned.  It takes the
\* lookup by exclusive reference, so no result borrowed from an earlier
\* query is alive when it runs.
InsertCall(info) ==
    /\ pc \in {"built", "updated"}
    /\ lookup' = LookupInsert(lookup, info)
    /\ pc' = "updated"
    /\ idOp' = "none"
    /\ idArg' = 0
    /\ idRes' = NotCalled
    /\ UNCHANGED <<stagingVars, inserted, calls, parseVars>>

(***************************************************************************)
(* Specification Spec: any add_<kind> calls, then build().                 *)
(***************************************************************************)
Init == BuildInit /\ IdIdle /\ ParseIdle

Next ==
    \/ \E c \in LocalityCollections :
            AddLocalities(c) /\ UNCHANGED <<calls, idVars, parseVars>>
    \/ \E c \in NeighborhoodCollections :
            AddNeighborhoods(c) /\ UNCHANGED <<calls, idVars, parseVars>>
    \/ \E c \in AddressCollections :
            AddAddresses(c) /\ UNCHANGED <<calls, idVars, parseVars>>
    \/ \E c \in BigUserCollections :
            AddBigUsers(c) /\ UNCHANGED <<calls, idVars, parseVars>>
    \/ \E c \in OperationalUnitCollections :
            AddOperationalUnits(c) /\ UNCHANGED <<calls, idVars, parseVars>>
    \/ \E c \in CpcCollections :
            AddCpcs(c) /\ UNCHANGED <<calls, idVars, parseVars>>
    \/ Build /\ UNCHANGED <<calls, idVars, parseVars>>
    \/ \E info \in OwnEntries : InsertCall(info)

Spec == Init /\ [][Next]_vars

(***************************************************************************)
(* Specification SpecAccum: the add_<kind> calls alone, with the list of   *)
(* the calls made so far.                                                  *)
(***************************************************************************)
MaxCalls == 3

Call(k, c) == [kind |-> k, coll |-> c]

\* One add_<kind> call, entered in the list of calls.
Accum(k, c) ==
    /\ Len(calls) < MaxCalls
    /\ calls' = Append(calls, Call(k, c))
    /\ UNCHANGED <<idVars, parseVars>>

AccumNext ==
    \/ \E c \in LocalityCollections : AddLocalities(c) /\ Accum("locality", c)
    \/ \E c \in NeighborhoodCollections : AddNeighborhoods(c) /\ Accum("neighborhood", c)
    \/ \E c \in AddressCollections : AddAddresses(c) /\ Accum("address", c)
    \/ \E c \in BigUserCollections : AddBigUsers(c) /\ Accum("big_user", c)
    \/ \E c \in OperationalUnitCollections :
            AddOperationalUnits(c) /\ Accum("operational_unit", c)
    \/ \E c \in CpcCollections : AddCpcs(c) /\ Accum("cpc", c)

SpecAccum == Init /\ [][AccumNext]_vars

\* A recorded history of add calls followed by build(), which consumes the
\* builder: whatever was staged by then is what build() sees.
AccumBuildNext ==
    \/ AccumNext
    \/ Build /\ UNCHANGED <<calls, idVars, parseVars>>
    \/ \E info \in OwnEntries : InsertCall(info)

SpecAccumBuild == Init /\ [][AccumBuildNext]_vars

(***************************************************************************)
(* Specifications SpecParse and SpecId                                     *)
(***************************************************************************)
InitParse == ParseInit /\ IdIdle /\ BuildInit

ParseNext ==
    \/ FromUtf8Call /\ UNCHANGED <<idVars, buildVars>>
    \/ LinesCall /\ UNCHANGED <<idVars, buildVars>>

SpecParse == InitParse /\ [][ParseNext]_vars

InitId == IdIdle /\ ParseIdle /\ BuildInit

IdNext ==
    \/ /\ idOp = "none"
       /\ \E ty \in IdTypes, v \in IdValues :
            NewCall(ty, v) /\ UNCHANGED <<parseVars, buildVars>>
    \/ /\ idOp = "none"
       /\ \E ty \in IdTypes, v \in IdValues :
            TryFromCall(ty, v) /\ UNCHANGED <<parseVars, buildVars>>
    \/ /\ idOp = "none"
       /\ \E ty \in IdTypes, s \in IdTexts :
            FromStrCall(ty, s) /\ UNCHANGED <<parseVars, buildVars>>

SpecId == InitId /\ [][IdNext]_vars

(***************************************************************************)
(* Specification SpecText: one call of a text function of the reader       *)
(* (Uf::from_str, required_field, optional_field, parse_line, the          *)
(* single-byte decoder, parse_locality_line).  idOp names the function     *)
(* called, idArg is its argument and idRes its result.                     *)
(***************************************************************************)
MaxUfTextLen == 3

UfAlphabet == {"S", "P", "A", "s", "p", "c", "Z", " ", "E_ACUTE", "NBSP"}

UfTexts ==
    SeqsUpTo(UfAlphabet, MaxUfTextLen)
        \cup {Chars("  sp  "), Chars("XYZW"), <<"\t">> \o Chars("Rj") \o <<"\n">>,
              <<"\f">> \o Chars("AC"), <<"VT">> \o Chars("sp") \o <<"NEL">>,
              <<"U+2003", "A">>, <<"\f", "NEL">>,
              <<"U+00E3">>, <<"S", "U+00E3">>, <<"U+20AC">>, <<"U+1F600">>,
              <<"U+0080", "U+07FF">>, <<"U+0000", "U+007F">>}

\* Uf::from_str(s)
UfFromStrCall(s) ==
    /\ idOp = "none"
    /\ idOp' = "Uf::from_str"
    /\ idArg' = s
    /\ idRes' = UfFromStr(s)

MaxFieldLen == 3

FieldAlphabet == {"a", "@", " ", "\f", "NEL"}

\* EdneParser::required_field(field, field_name, line_number)
RequiredFieldCall(field, field_name, line_number) ==
    /\ idOp = "none"
    /\ idOp' = "required_field"
    /\ idArg' = [field |-> field, field_name |-> field_name, line_number |-> line_number]
    /\ idRes' = RequiredField(field, field_name, line_number)

\* EdneParser::optional_field(field)
OptionalFieldCall(field) ==
    /\ idOp = "none"
    /\ idOp' = "optional_field"
    /\ idArg' = field
    /\ idRes' = OptionalField(field)

MaxLineLen == 5

LineAlphabet == {"a", "b", "@", " "}

\* EdneParser::parse_line(line)
ParseLineCall(line) ==
    /\ idOp = "none"
    /\ idOp' = "parse_line"
    /\ idArg' = line
    /\ idRes' = ParseLine(line)

\* char::encode_utf8 of a code point below U+0800: one byte below U+0080,
\* otherwise the two bytes 110xxxxx 10xxxxxx.
Utf8Encode(cp) ==
    IF cp < 128 THEN <<cp>> ELSE <<192 + (cp \div 64), 128 + (cp % 64)>>

\* A push that stores the byte itself.
StringPushRaw(s, cp) == Append(s, cp)

\* String::push: the text is held as its UTF-8 bytes
StringPush(s, cp) == s \o Utf8Encode(cp)

\* EdneParser::decode_iso8859_1: result.push(byte as char) for every byte
RECURSIVE DecodeIso88591(_)
DecodeIso88591(bytes) ==
    IF bytes = <<>> THEN [tag |-> "Ok", content |-> <<>>]
    ELSE LET r == DecodeIso88591(SubSeq(bytes, 1, Len(bytes) - 1)) IN
         [tag |-> "Ok", content |-> StringPush(r.content, bytes[Len(bytes)])]

\* EdneParser::from_iso8859_1: decode_iso8859_1(bytes)?, then the parser
FromIso88591(bytes) ==
    LET r == DecodeIso88591(bytes) IN
    IF r.tag = "Err" THEN r
    ELSE [tag |-> "Ok", content |-> r.content, separator |-> FIELD_SEPARATOR]

MaxBytes == 3

\* Byte values at the ends of the ASCII and of the upper half.
ByteValues == {0, 65, 127, 128, 160, 227, 255}

\* EdneParser::from_iso8859_1(bytes)
FromIso88591Call(bytes) ==
    /\ idOp = "none"
    /\ idOp' = "from_iso8859_1"
    /\ idArg' = bytes
    /\ idRes' = FromIso88591(bytes)

\* The fields joined by the separator.
RECURSIVE Join(_, _)
Join(fields, sep) ==
    IF Len(fields) = 0 THEN <<>>
    ELSE IF Len(fields) = 1 THEN fields[1]
    ELSE fields[1] \o <<sep>> \o Join(Tail(fields), sep)

\* The texts each field of a locality line is drawn from.
LocalityFieldTexts ==
    << {Chars("16"), Chars(" 07 ")},
       {Chars("AC"), Chars("sp"), Chars("ZZ")},
       {Chars("Rio Branco"), Chars(" Vila ")},
       {<<>>, Chars("69900000"), Chars(" ")},
       {Chars("0"), Chars("1")},
       {Chars("M"), Chars("d")},
       {<<>>, Chars("2"), Chars("0"), Chars(" 3 ")},
       {<<>>, Chars("Rio Branco"), Chars(" RB "), <<"NBSP">>},
       {<<>>, Chars("1200401")} >>

\* parse_locality_line(parser, line, line_number), the line given by its fields
ParseLocalityLineCall(fields, line_number) ==
    /\ idOp = "none"
    /\ idOp' = "parse_locality_line"
    /\ idArg' = [fields |-> fields, line_number |-> line_number]
    /\ idRes' = ParseLocalityLine(Join(fields, FIELD_SEPARATOR), line_number)

MaxDefects == 2

\* The fields of one valid line of each kind.
BaseFields ==
    [k \in Kinds |->
    CASE k = "locality" -> ParseLine(Chars("16@AC@Rio Branco@69900000@1@M@7@RB@1200401"))
      [] k = "neighborhood" -> ParseLine(Chars("5@AC@16@Centro@Ctr"))
      [] k = "address" ->
            ParseLine(Chars("7@AC@16@5@6@Nelson Mesquita@lado par@69900000@Rua@S@R NM"))
      [] k = "big_user" -> ParseLine(Chars("7@AC@16@5@3@Banco@Rua A 1@69900000@Bco"))
      [] k = "operational_unit" ->
            ParseLine(Chars("7@AC@16@5@3@AC Centro@Rua E 5@69900000@S@ACC"))
      [] k = "cpc" -> ParseLine(Chars("7@AC@16@Mutirao@Quadra 1@69900000"))]

\* parse_<kind>_line(parser, line, line_number), the line given by its fields
ParseKindLineCall(k, fields, line_number) ==
    /\ idOp = "none"
    /\ idOp' = "parse_kind_line"
    /\ idArg' = [kind |-> k, fields |-> fields, line_number |-> line_number]
    /\ idRes' = ParseKindLine(k, Join(fields, FIELD_SEPARATOR), line_number)

\* <enumeration>::from_str(s) for the enumeration a field of kind conv holds
EnumFromStrCall(conv, s) ==
    /\ idOp = "none"
    /\ idOp' = "enum_from_str"
    /\ idArg' = [conv |-> conv, text |-> s]
    /\ idRes' = Convert(conv, "", s)

TextNext ==
    \/ /\ idOp = "none"
       /\ \E k \in Kinds :
          \E P \in {S \in SUBSET (1..FieldCountOf(k)) : Cardinality(S) <= MaxDefects} :
          \E d \in [P -> {Chars(" "), Chars("0"), Chars("x"), Chars("+3")}] :
          \E extra \in {-1, 0, 1} :
            LET f == [i \in 1..FieldCountOf(k) |->
                        IF i \in P THEN d[i] ELSE BaseFields[k][i]]
            IN  /\ ParseKindLineCall(k, CASE extra = -1 -> SubSeq(f, 1, Len(f) - 1)
                                           [] extra = 0 -> f
                                           [] extra = 1 -> Append(f, Chars("x")), 2)
                /\ UNCHANGED <<parseVars, buildVars>>
    \/ /\ idOp = "none"
       /\ \E conv \in {"Situation", "LocalityType", "StreetType", "PostBox"},
             s \in SeqsUpTo({"d", "M", "p", "S", "n", "0", "3", "4", " ", "NBSP"},
                            MaxFieldLen) :
            EnumFromStrCall(conv, s) /\ UNCHANGED <<parseVars, buildVars>>
    \/ /\ idOp = "none"
       /\ \E s \in UfTexts : UfFromStrCall(s) /\ UNCHANGED <<parseVars, buildVars>>
    \/ /\ idOp = "none"
       /\ \E f \in SeqsUpTo(FieldAlphabet, MaxFieldLen), name \in {"LOC_NU", "CEP"},
             n \in 1..2 :
            RequiredFieldCall(f, name, n) /\ UNCHANGED <<parseVars, buildVars>>
    \/ /\ idOp = "none"
       /\ \E f \in SeqsUpTo(FieldAlphabet, MaxFieldLen) :
            OptionalFieldCall(f) /\ UNCHANGED <<parseVars, buildVars>>
    \/ /\ idOp = "none"
       /\ \E l \in SeqsUpTo(LineAlphabet, MaxLineLen) :
            ParseLineCall(l) /\ UNCHANGED <<parseVars, buildVars>>
    \/ /\ idOp = "none"
       /\ \E bytes \in SeqsUpTo(ByteValues, MaxBytes) :
            FromIso88591Call(bytes) /\ UNCHANGED <<parseVars, buildVars>>
    \/ /\ idOp = "none"
       /\ \E fields \in LocalityFieldTexts[1] \X LocalityFieldTexts[2]
                        \X LocalityFieldTexts[3] \X LocalityFieldTexts[4]
                        \X LocalityFieldTexts[5] \X LocalityFieldTexts[6]
                        \X LocalityFieldTexts[7] \X LocalityFieldTexts[8]
                        \X LocalityFieldTexts[9] :
            ParseLocalityLineCall(fields, 1) /\ UNCHANGED <<parseVars, buildVars>>

SpecText == InitId /\ [][TextNext]_vars

(***************************************************************************)
(* Specification SpecLookup: the command line's build_cep_lookup loads     *)
(* source files into a builder and builds the lookup, which is then        *)
(* queried once.  The sources carry the postal code 69900000 with and without   *)
(* surrounding spaces, two states and the locality names "Rio" and " Rio ".*)
(***************************************************************************)
LookupSources(k) ==
    CASE k = "locality" ->
            { << Chars("1@AC@Rio@@1@M@@@"), Chars("2@AC@ Rio @69900000@0@P@1@@") >>,
              << Chars("3@SP@Ilha@ 69900000@0@D@@@") >> }
      [] k = "neighborhood" -> { << Chars("5@AC@1@Centro@") >> }
      [] k = "address" ->
            { << Chars("7@AC@1@5@@Nelson Mesquita@@69900000 @Rua@S@") >> }
      [] k = "big_user" -> { << Chars("7@AC@2@5@@Banco@Rua A 1@69900000@") >> }
      [] k = "operational_unit" -> { << Chars("7@SP@3@5@@CDD@Rua G 7@69900001@N@") >> }
      [] k = "cpc" ->
            { << Chars("7@AC@9@Gulandim@Povoado@ 69900000 ") >>,
              << Chars("8@AC@1@Mutirao@Quadra 1@69900001"), Chars("x@AC@1@M@Q@1") >> }

\* build_cep_lookup, one file: <Collection>::from_iso8859_1(&bytes)? and
\* builder.add_<kind>(collection); the text is the decoded content of the file.
LoadFile(k, ls) ==
    \E r \in {FromUtf8(k, Content(ls, TRUE))} :
    /\ pc = "staging"
    /\ kind' = k
    /\ phys' = ls
    /\ finalEol' = TRUE
    /\ out' = r
    /\ IF r.tag = "Err"
       THEN /\ pc' = "failed"
            /\ UNCHANGED <<stagingVars, lookup, inserted>>
       ELSE CASE k = "locality" -> AddLocalities(r.coll)
              [] k = "neighborhood" -> AddNeighborhoods(r.coll)
              [] k = "address" -> AddAddresses(r.coll)
              [] k = "big_user" -> AddBigUsers(r.coll)
              [] k = "operational_unit" -> AddOperationalUnits(r.coll)
              [] k = "cpc" -> AddCpcs(r.coll)
    /\ UNCHANGED <<calls, idVars>>

\* CepLookup::get
Get(ceps, cep) == IF cep \in DOMAIN ceps THEN Some(ceps[cep]) ELSE None

\* A by_locality that compares the names without their surrounding whitespace.
ByLocalityTrimmed(ceps, locality, o) ==
    SelectSeq([i \in 1..Len(o) |-> ceps[o[i]]],
              LAMBDA info : Trim(info.locality) = Trim(locality))

\* CepLookup::by_uf: self.ceps.values().filter(..).collect(), the values
\* visited in the order o
ByUf(ceps, uf, o) ==
    SelectSeq([i \in 1..Len(o) |-> ceps[o[i]]], LAMBDA info : info.uf = uf)

\* CepLookup::by_locality
ByLocality(ceps, locality, o) ==
    SelectSeq([i \in 1..Len(o) |-> ceps[o[i]]], LAMBDA info : info.locality = locality)

\* lookup.lookup(cep): self.get(cep)
LookupCall(cep) ==
    /\ pc \in {"built", "updated"}
    /\ idOp' = "lookup"
    /\ idArg' = cep
    /\ idRes' = Get(lookup, cep)
    /\ UNCHANGED <<buildVars, calls, parseVars>>

\* lookup.by_uf(uf)
ByUfCall(uf) ==
    /\ pc \in {"built", "updated"}
    /\ idOp' = "by_uf"
    /\ idArg' = uf
    /\ \E o \in Orders(lookup) : idRes' = ByUf(lookup, uf, o)
    /\ UNCHANGED <<buildVars, calls, parseVars>>

\* lookup.by_locality(locality)
ByLocalityCall(locality) ==
    /\ pc \in {"built", "updated"}
    /\ idOp' = "by_locality"
    /\ idArg' = locality
    /\ \E o \in Orders(lookup) : idRes' = ByLocality(lookup, locality, o)
    /\ UNCHANGED <<buildVars, calls, parseVars>>

\* lookup.len()
LenCall ==
    /\ pc \in {"built", "updated"}
    /\ idOp' = "len"
    /\ idArg' = 0
    /\ idRes' = Cardinality(DOMAIN lookup)
    /\ UNCHANGED <<buildVars, calls, parseVars>>

LookupNext ==
    \/ /\ pc = "staging"
       /\ \E k \in Kinds : \E ls \in LookupSources(k) : LoadFile(k, ls)
    \/ Build /\ UNCHANGED <<calls, idVars, parseVars>>
    \/ /\ pc \in {"built", "updated"} /\ idOp = "none"
       /\ \E cep \in {Chars("69900000"), Chars(" 69900000"), Chars("69900000 "),
                      Chars(" 69900000 "), Chars("69900001"), Chars("0")} :
            LookupCall(cep)
    \/ /\ pc \in {"built", "updated"} /\ idOp = "none"
       /\ \E uf \in {Chars("AC"), Chars("SP"), Chars("RJ")} : ByUfCall(uf)
    \/ /\ pc \in {"built", "updated"} /\ idOp = "none"
       /\ \E n \in {Chars("Rio"), Chars(" Rio "), Chars("rio"), Chars("Ilha"), <<>>} :
            ByLocalityCall(n)
    \/ idOp = "none" /\ LenCall
    \/ \E info \in {e \in OwnEntries : e.cep = Chars("69900000")} : InsertCall(info)

SpecLookup == Init /\ [][LookupNext]_vars

(***************************************************************************)
(* Properties of the identifier constructors (SpecId)                      *)
(***************************************************************************)
\* The text between the first and the last character that is not whitespace.
Trimmed(s) ==
    LET keep == {i \in 1..Len(s) : s[i] \notin WhiteSpace} IN
    IF keep = {} THEN <<>>
    ELSE SubSeq(s, CHOOSE i \in keep : \A j \in keep : i <= j,
                   CHOOSE i \in keep : \A j \in keep : j <= i)

IsDecimal(t) == t # <<>> /\ \A i \in 1..Len(t) : t[i] \in Digits

\* The digits of t without its leading zeros; "0" when t is all zeros.
Canonical(t) ==
    LET nz == {i \in 1..Len(t) : t[i] # "0"} IN
    IF nz = {} THEN <<"0">>
    ELSE SubSeq(t, CHOOSE i \in nz : \A j \in nz : i <= j, Len(t))

\* a <= b for two digit texts of the same length
DigitsLeq(a, b) ==
    \/ a = b
    \/ \E i \in 1..Len(a) :
          /\ DigitVal(a[i]) < DigitVal(b[i])
          /\ \A j \in 1..(i - 1) : a[j] = b[j]

U32MaxText == Chars("4294967295")

FitsU32(t) ==
    LET c == Canonical(t) IN
    \/ Len(c) < Len(U32MaxText)
    \/ Len(c) = Len(U32MaxText) /\ DigitsLeq(c, U32MaxText)

\* The text after one leading plus sign, if there is one.
Unsigned(t) == IF t # <<>> /\ t[1] = "+" THEN SubSeq(t, 2, Len(t)) ELSE t

\* C9: construction from an unsigned integer (new, try_from) fails iff the
\* value is zero, and every identifier a public constructor (new, try_from,
\* from_str) returns wraps a value different from 0.
C9_IdentifierNeverZero ==
    /\ idOp \in {"new", "try_from"} => (idRes.tag = "Err" <=> idArg = 0)
    /\ idOp \in {"new", "try_from", "from_str"} /\ idRes.tag = "Ok" => idRes.id.v # 0

\* C10 as stated: from_str trims the text; trimmed text that is not a
\* sequence of decimal digits fails with InvalidFormat carrying the original
\* text, digits denoting zero fail with Zero, and any other digits d give
\* the identifier of value d, displayed as d without leading zeros.
C10_FromStrDecimalOnly ==
    idOp = "from_str" =>
        LET t == Trimmed(idArg) IN
        IF ~IsDecimal(t)
        THEN idRes.tag = "Err" /\ idRes.err = "InvalidFormat" /\ idRes.text = idArg
        ELSE IF Canonical(t) = <<"0">>
        THEN idRes.tag = "Err" /\ idRes.err = "Zero"
        ELSE idRes.tag = "Ok" /\ IdDisplay(idRes.id) = Canonical(t)

\* C10 amended: from_str trims the text; the trimmed text is a number when
\* it is one or more decimal digits, optionally preceded by one plus sign,
\* whose value is at most 4294967295.  Text that is not a number fails with
\* InvalidFormat carrying the original, untrimmed text; a number denoting
\* zero fails with Zero; any other number d gives the identifier of value d,
\* displayed as d without sign, leading zeros or padding.
C10_FromStr ==
    idOp = "from_str" =>
        LET d == Unsigned(Trimmed(idArg)) IN
        IF ~(IsDecimal(d) /\ FitsU32(d))
        THEN idRes.tag = "Err" /\ idRes.err = "InvalidFormat" /\ idRes.text = idArg
        ELSE IF Canonical(d) = <<"0">>
        THEN idRes.tag = "Err" /\ idRes.err = "Zero"
        ELSE idRes.tag = "Ok" /\ IdDisplay(idRes.id) = Canonical(d)

\* from_str accepted a padded text with a leading zero.
C10_Witness ==
    /\ idOp = "from_str"
    /\ idRes.tag = "Ok"
    /\ idArg[1] \in WhiteSpace
    /\ Len(Trimmed(idArg)) > Len(IdDisplay(idRes.id))

(***************************************************************************)
(* Properties of the line enumerator and of the collection parsers         *)
(* (SpecParse), stated over the physical lines of the source.              *)
(***************************************************************************)
\* Physical line i is followed by a line ending.
Terminated(i) == i < Len(phys) \/ finalEol

\* Physical line i without the "\r" of its "\r\n" line ending.
LineText(i) ==
    LET l == phys[i] IN
    IF Terminated(i) /\ l # <<>> /\ l[Len(l)] = "\r" THEN SubSeq(l, 1, Len(l) - 1) ELSE l

IsBlank(l) == \A p \in 1..Len(l) : l[p] \in WhiteSpace

Blank == [tag |-> "Blank"]

\* The outcome of the kind's line parser on each physical line up to line n,
\* a blank line apart.
RECURSIVE LineResults(_)
LineResults(n) ==
    IF n = 0 THEN <<>>
    ELSE Append(LineResults(n - 1),
                IF IsBlank(LineText(n)) THEN Blank ELSE ParseKindLine(kind, LineText(n), n))

NonBlankIn(rs) == {i \in 1..Len(rs) : rs[i] # Blank}
FailingIn(rs) == {i \in 1..Len(rs) : rs[i].tag = "Err"}

Parsed == out.tag \in {"Ok", "Err"}

\* C5: a parse returns a collection only if every non-blank line parses;
\* otherwise it returns the error of the first failing line in file order,
\* whatever the lines after it hold.
C5_FailFast ==
    Parsed =>
        LET rs == LineResults(Len(phys))
            failing == FailingIn(rs)
        IN  IF failing = {} THEN out.tag = "Ok"
            ELSE out = rs[CHOOSE i \in failing : \A j \in failing : i <= j]

\* A parse failed on a line that follows a good one, and a later line fails
\* with another error.
C5_Witness ==
    /\ out.tag = "Err"
    /\ LET rs == LineResults(Len(phys)) IN
       /\ \E i \in 1..Len(rs) : rs[i].tag = "Ok" /\ i < out.line_number
       /\ \E j \in FailingIn(rs) : j > out.line_number /\ rs[j].err # out.err

\* The number of fields of each record kind.
Arity ==
    [locality |-> 9, neighborhood |-> 5, address |-> 11, big_user |-> 9,
     operational_unit |-> 10, cpc |-> 6]

\* The number of fields physical line i splits into: its separators plus one.
FieldsOf(i) == Cardinality({p \in 1..Len(LineText(i)) : LineText(i)[p] = "@"}) + 1

\* C6: a line that splits on '@' into m fields, m different from the kind's
\* field count n, fails with FieldCount {expected = n, got = m, line_number =
\* the line's 1-based number}; a line with exactly n fields never yields a
\* FieldCount error.
C6_ArityCheck ==
    Parsed =>
        LET wrong == {i \in 1..Len(phys) :
                        ~IsBlank(LineText(i)) /\ FieldsOf(i) # Arity[kind]}
            first == IF wrong = {} THEN 0
                     ELSE CHOOSE i \in wrong : \A j \in wrong : i <= j
        IN  /\ out.tag = "Ok" => wrong = {}
            /\ out.tag = "Err" =>
                  IF out.line_number \in wrong
                  THEN /\ out.err = "FieldCount"
                       /\ out.expected = Arity[kind]
                       /\ out.got = FieldsOf(out.line_number)
                  ELSE out.err # "FieldCount"
            /\ wrong # {} => out.tag = "Err" /\ out.line_number <= first

\* A line after the first one has more fields than its kind has.
C6_Witness ==
    /\ out.tag = "Err"
    /\ out.err = "FieldCount"
    /\ out.line_number > 1
    /\ out.got > out.expected

\* C7: lines() yields, in increasing order, exactly the pairs (n, text) of
\* the lines that are not empty after trimming, n being the line's 1-based
\* position among all physical lines; the line number an error carries is
\* the position of the line that failed.
C7_TrueLineNumbers ==
    /\ out.tag = "Lines" =>
          /\ \A a, b \in 1..Len(out.lines) : a < b => out.lines[a][1] < out.lines[b][1]
          /\ {out.lines[a] : a \in 1..Len(out.lines)} =
                {<<i, LineText(i)>> : i \in {j \in 1..Len(phys) : Trimmed(LineText(j)) # <<>>}}
    /\ out.tag = "Err" =>
          /\ out.line_number \in 1..Len(phys)
          /\ ~IsBlank(LineText(out.line_number))
          /\ out = ParseKindLine(kind, LineText(out.line_number), out.line_number)

\* lines() yielded a line of a CRLF source that follows a skipped line.
C7_Witness ==
    /\ out.tag = "Lines"
    /\ out.lines # <<>>
    /\ out.lines[Len(out.lines)][1] > Len(out.lines)
    /\ \E i \in 1..Len(phys) : ~IsBlank(LineText(i)) /\ LineText(i) # phys[i]

\* C8: when every non-blank line parses, the parse succeeds, the collection
\* maps each identifier to the record of the last line that carries it, and
\* its size is the number of distinct identifiers in the source.
C8_LastWriteWins ==
    Parsed =>
        LET rs == LineResults(Len(phys))
            good == {i \in 1..Len(rs) : rs[i].tag = "Ok"}
            ids == {rs[i].rec.id : i \in good}
            last(id) == CHOOSE i \in good :
                            /\ rs[i].rec.id = id
                            /\ \A j \in good : rs[j].rec.id = id => j <= i
        IN  FailingIn(rs) = {} =>
                /\ out.tag = "Ok"
                /\ DOMAIN out.coll = ids
                /\ \A id \in ids : out.coll[id] = rs[last(id)].rec
                /\ Cardinality(DOMAIN out.coll) = Cardinality(ids)

\* Two lines carry one identifier, written differently, with different
\* records, and the collection holds two identifiers.
C8_Witness ==
    /\ out.tag = "Ok"
    /\ Cardinality(DOMAIN out.coll) = 2
    /\ LET rs == LineResults(Len(phys)) IN
       \E i, j \in NonBlankIn(rs) :
          /\ i < j
          /\ rs[i].rec.id = rs[j].rec.id
          /\ rs[i].rec # rs[j].rec
          /\ phys[i][1] # phys[j][1]

(***************************************************************************)
(* Properties of the lookup builder (Spec, SpecAccum)                      *)
(***************************************************************************)
\* The lookup is as build() returned it: queries may have been made on it,
\* but no insert of the holder's own.
Built == pc = "built"

\* The holder has inserted entries of its own into the lookup build() returned.
Updated == pc = "updated"

StageOrder ==
    [locality |-> 1, address |-> 2, big_user |-> 3, operational_unit |-> 4, cpc |-> 5]

TagOf ==
    [locality |-> "UncodedLocality", address |-> "Street", big_user |-> "BigUser",
     operational_unit |-> "OperationalUnit", cpc |-> "Cpc"]

StagedOf(k) ==
    CASE k = "locality" -> localities
      [] k = "neighborhood" -> neighborhoods
      [] k = "address" -> addresses
      [] k = "big_user" -> big_users
      [] k = "operational_unit" -> operational_units
      [] k = "cpc" -> cpcs

\* The postal code a staged record carries, if it carries one.
CepOf(k, r) == IF k = "locality" THEN r.cep ELSE Some(r.cep)

\* The address text the entry of a record shows.
AddressTextOf(k, r) ==
    CASE k = "locality" -> <<>>
      [] k = "address" ->
            IF r.street_type_indicator = Some("Yes")
            THEN r.street_type \o <<" ">> \o r.name ELSE r.name
      [] OTHER -> r.address

\* The staged records of kind k that carry postal code cep.
Carrying(k, cep) ==
    {id \in DOMAIN StagedOf(k) : CepOf(k, StagedOf(k)[id]) = Some(cep)}

EntryKinds == DOMAIN StageOrder

\* The postal codes the staged records carry.
CarriedCeps ==
    UNION {{CepOf(k, StagedOf(k)[id]).val :
                id \in {x \in DOMAIN StagedOf(k) : CepOf(k, StagedOf(k)[x]).some}} :
           k \in EntryKinds}

\* C1: after build(), the entry of a postal code carried by records of more
\* than one kind has the tag and the address text of a record of the latest
\* stage that carries it, in the order uncoded locality < street < big user
\* < operational unit < CPC.
C1_MergePrecedence ==
    Built =>
        \A cep \in CarriedCeps :
            LET ks == {k \in EntryKinds : Carrying(k, cep) # {}}
                top == CHOOSE k \in ks : \A j \in ks : StageOrder[j] <= StageOrder[k]
            IN  Cardinality(ks) > 1 =>
                    \E id \in Carrying(top, cep) :
                        /\ cep \in DOMAIN lookup
                        /\ lookup[cep].type_ = TagOf[top]
                        /\ lookup[cep].address = AddressTextOf(top, StagedOf(top)[id])

\* A locality and an operational unit share postal code 69900000, no CPC
\* carries it, and the entry is the operational unit's.
C1_Witness ==
    /\ Built
    /\ Carrying("locality", Chars("69900000")) # {}
    /\ Carrying("operational_unit", Chars("69900000")) # {}
    /\ Carrying("cpc", Chars("69900000")) = {}
    /\ lookup[Chars("69900000")].type_ = "OperationalUnit"
    /\ lookup[Chars("69900000")].address = Chars("Rua E 5")

\* The neighbourhood identifier build() resolves for a record of kind k.
NeighborhoodIdOf(k, r) ==
    IF k = "address" THEN r.neighborhood_id_start ELSE r.neighborhood_id

\* C3: build() emits the entry of every street, big-user, operational-unit
\* and CPC record under the record's postal code; when the record's locality
\* identifier matches no staged locality the entry's locality name is the
\* empty text, and when the neighbourhood identifier of a street, big user
\* or operational unit matches no staged neighbourhood the entry has no
\* neighbourhood.
C3_MissingForeignKeys ==
    Built =>
        \A k \in {"address", "big_user", "operational_unit", "cpc"} :
            \A id \in DOMAIN StagedOf(k) :
                LET r == StagedOf(k)[id] IN
                /\ r.cep \in DOMAIN lookup
                /\ \E e \in inserted :
                      /\ e.src = k
                      /\ e.id = id
                      /\ e.info.cep = r.cep
                      /\ e.info.type_ = TagOf[k]
                      /\ r.locality_id \notin DOMAIN localities => e.info.locality = <<>>
                      /\ k # "cpc" /\ NeighborhoodIdOf(k, r) \notin DOMAIN neighborhoods
                            => e.info.neighborhood = None

\* A street whose locality and neighbourhood are not staged has its entry in
\* the lookup, next to localities and neighbourhoods that are staged.
C3_Witness ==
    /\ Built
    /\ localities # EmptyMap
    /\ neighborhoods # EmptyMap
    /\ \E id \in DOMAIN addresses :
          /\ addresses[id].locality_id \notin DOMAIN localities
          /\ addresses[id].neighborhood_id_start \notin DOMAIN neighborhoods
          /\ lookup[addresses[id].cep].type_ = "Street"
          /\ lookup[addresses[id].cep].locality = <<>>
          /\ lookup[addresses[id].cep].neighborhood = None

\* C4: in every state the builder can reach, each add_<kind> call can be
\* made and build() can be made, whatever is staged; what build() returns
\* is a lookup, every entry stored under its own postal code.
C4_BuilderCannotFail ==
    /\ pc = "staging" =>
          /\ ENABLED Build
          /\ \A c \in LocalityCollections : ENABLED AddLocalities(c)
          /\ \A c \in NeighborhoodCollections : ENABLED AddNeighborhoods(c)
          /\ \A c \in AddressCollections : ENABLED AddAddresses(c)
          /\ \A c \in BigUserCollections : ENABLED AddBigUsers(c)
          /\ \A c \in OperationalUnitCollections : ENABLED AddOperationalUnits(c)
          /\ \A c \in CpcCollections : ENABLED AddCpcs(c)
    /\ Built =>
          /\ DOMAIN lookup = CarriedCeps
          /\ \A cep \in DOMAIN lookup :
                /\ lookup[cep].cep = cep
                /\ lookup[cep].type_ \in {TagOf[k] : k \in EntryKinds}

\* build() returned although a locality is its own parent and a record names
\* a locality that is not staged.
C4_Witness ==
    /\ Built
    /\ \E id \in DOMAIN localities : localities[id].subordinate_to = Some(id)
    /\ \E id \in DOMAIN cpcs : cpcs[id].locality_id \notin DOMAIN localities
    /\ \E id \in DOMAIN big_users :
          big_users[id].neighborhood_id \notin DOMAIN neighborhoods

\* The staged map of kind k after the add_<kind> calls cs, made in this order.
RECURSIVE Replay(_, _)
Replay(cs, k) ==
    IF cs = <<>> THEN EmptyMap
    ELSE LET c == cs[Len(cs)]
             before == Replay(SubSeq(cs, 1, Len(cs) - 1), k)
         IN  IF c.kind = k THEN Stage(before, c.coll) ELSE before

CallOrders(n) == {p \in [1..n -> 1..n] : \A i, j \in 1..n : p[i] = p[j] => i = j}

Reordered(cs, p) == [i \in 1..Len(cs) |-> cs[p[i]]]

\* Every order of the calls made leaves what the builder now holds.
OrderFree ==
    \A p \in CallOrders(Len(calls)) :
        \A k \in Kinds : Replay(Reordered(calls, p), k) = StagedOf(k)

\* The collections of one kind agree on the record of every identifier that
\* two of them hold.
Agreeing(cs) ==
    \A i, j \in 1..Len(cs) :
        cs[i].kind = cs[j].kind =>
            \A x \in DOMAIN cs[i].coll \cap DOMAIN cs[j].coll :
                cs[i].coll[x] = cs[j].coll[x]

\* C2 as stated: whatever collections were added, every order of the
\* add_<kind> calls leaves the builder holding the same staged records per
\* kind.
C2_AnyOrderSameStaging == OrderFree

\* C2 amended: when the added collections of one kind agree on the record
\* of every identifier they share, every order of the add_<kind> calls
\* leaves the builder holding the same staged records per kind: for each
\* kind, the records of all the collections of that kind together.
C2_AgreeingOrderFree ==
    Agreeing(calls) =>
        /\ OrderFree
        /\ \A k \in Kinds :
              LET cs == {i \in 1..Len(calls) : calls[i].kind = k} IN
              /\ DOMAIN StagedOf(k) = UNION {DOMAIN calls[i].coll : i \in cs}
              /\ \A i \in cs : \A x \in DOMAIN calls[i].coll :
                    StagedOf(k)[x] = calls[i].coll[x]

\* Three collections were added, two of them localities that share an
\* identifier and agree on it, each holding a locality the other lacks.
C2_Witness ==
    /\ Len(calls) = 3
    /\ Agreeing(calls)
    /\ \E i, j \in 1..3 :
          /\ i < j
          /\ calls[i].kind = "locality"
          /\ calls[j].kind = "locality"
          /\ DOMAIN calls[i].coll \cap DOMAIN calls[j].coll # {}
          /\ DOMAIN calls[i].coll \ DOMAIN calls[j].coll # {}
          /\ DOMAIN calls[j].coll \ DOMAIN calls[i].coll # {}
    /\ \E i \in 1..3 : calls[i].kind # "locality"

\* The lookup.insert calls build() made for the staged records of kind k.
InsertedOf(k) == {e \in inserted : e.src = k}

\* C12: build() emits an entry for a staged locality iff the locality has a
\* postal code, whatever its situation; the entry carries that postal code,
\* the tag uncoded-locality, the locality's own name and state, an empty
\* address and no complement; its neighbourhood is the name of the locality
\* named by subordinate_to when that one is staged, and absent otherwise.
C12_UncodedLocalityStage ==
    Built =>
        /\ \A id \in DOMAIN localities :
              (\E e \in InsertedOf("locality") : e.id = id) <=> localities[id].cep.some
        /\ \A e \in InsertedOf("locality") :
              LET l == localities[e.id]
                  p == l.subordinate_to
              IN  /\ e.info.cep = l.cep.val
                  /\ e.info.cep \in DOMAIN lookup
                  /\ e.info.type_ = "UncodedLocality"
                  /\ e.info.locality = l.name
                  /\ e.info.uf = l.uf
                  /\ e.info.address = <<>>
                  /\ e.info.complement = None
                  /\ e.info.neighborhood =
                        IF p.some /\ p.val \in DOMAIN localities
                        THEN Some(localities[p.val].name) ELSE None

\* build() ran with a coded locality that has a postal code and no parent,
\* a locality whose parent is not staged, and a chain 3 -> 2 -> 1 whose
\* entry for locality 3 names locality 2.
C12_Witness ==
    /\ Built
    /\ \E e \in InsertedOf("locality") :
          /\ localities[e.id].situation # "NotCoded"
          /\ ~localities[e.id].subordinate_to.some
          /\ lookup[e.info.cep] = e.info
    /\ \E id \in DOMAIN localities : ~localities[id].cep.some
    /\ \E e \in InsertedOf("locality") :
          LET p == localities[e.id].subordinate_to IN
          /\ p.some /\ p.val \in DOMAIN localities /\ p.val # e.id
          /\ localities[p.val].subordinate_to.some
          /\ localities[p.val].subordinate_to.val \in DOMAIN localities
          /\ localities[p.val].subordinate_to.val # p.val
          /\ e.info.neighborhood = Some(localities[p.val].name)
          /\ e.info.neighborhood #
                Some(localities[localities[p.val].subordinate_to.val].name)

\* C13: build() emits one entry for every staged street; its address text is
\* the street-type label, one space and the street name when the usage flag
\* is Yes, and the street name alone when the flag is No or absent; the entry
\* carries the street's postal code, the tag street and the street's
\* complement.
C13_StreetDisplayText ==
    Built =>
        /\ \A id \in DOMAIN addresses : \E e \in InsertedOf("address") : e.id = id
        /\ \A e \in InsertedOf("address") :
              LET a == addresses[e.id]
                  flag == a.street_type_indicator
              IN  /\ flag = Some("Yes") =>
                        e.info.address = a.street_type \o <<" ">> \o a.name
                  /\ (flag = Some("No") \/ flag = None) => e.info.address = a.name
                  /\ flag \in {Some("Yes"), Some("No"), None}
                  /\ e.info.cep = a.cep
                  /\ e.info.cep \in DOMAIN lookup
                  /\ e.info.type_ = "Street"
                  /\ e.info.complement = a.complement

\* build() ran with "Rua" + "Nelson Mesquita" flagged Yes and with a street
\* whose flag is absent, and the lookup shows the entry of the latter.
C13_Witness ==
    /\ Built
    /\ \E e \in InsertedOf("address") :
          /\ addresses[e.id].street_type_indicator = Some("Yes")
          /\ e.info.address = Chars("Rua Nelson Mesquita")
    /\ \E e \in InsertedOf("address") :
          /\ addresses[e.id].street_type_indicator = None
          /\ e.info.address = Chars("Brasil")
          /\ lookup[e.info.cep] = e.info

\* The postal codes of the lookup.insert calls build() made.
InsertedCeps == {e.info.cep : e \in inserted}

\* C14: the lookup build() returns stores every entry under the entry's own
\* postal code, its keys are exactly the postal codes carried by the staged
\* localities that have one and by the staged streets, big users,
\* operational units and CPCs, and len() is the number of distinct such
\* postal codes although build() may have inserted more entries than that.
C14_OneEntryPerCep ==
    /\ \A cep \in DOMAIN lookup : lookup[cep].cep = cep
    /\ Built =>
        /\ \A cep \in DOMAIN lookup : \E e \in inserted : e.info = lookup[cep]
        /\ DOMAIN lookup = InsertedCeps
        /\ InsertedCeps = CarriedCeps
        /\ Cardinality(DOMAIN lookup) = Cardinality(CarriedCeps)
        /\ Cardinality(DOMAIN lookup) <= Cardinality(inserted)

\* build() made more lookup.insert calls than there are postal codes, for
\* records of all five kinds, one of them a locality without postal code.
C14_Witness ==
    /\ Built
    /\ Cardinality(inserted) > Cardinality(DOMAIN lookup)
    /\ Cardinality(DOMAIN lookup) >= 3
    /\ \A k \in EntryKinds : InsertedOf(k) # {}
    /\ \E id \in DOMAIN localities : ~localities[id].cep.some

\* C15: build() emits one entry for every staged big user and every staged
\* operational unit; the entry carries the record's postal code, state and
\* address text, the record's name as complement, the name of the staged
\* locality (empty when it is not staged), the name of the staged
\* neighbourhood (absent when it is not staged) and the tag of the kind;
\* nothing in it comes from the street identifier or the post-box flag.
C15_BigUserAndUnitStages ==
    Built =>
        \A k \in {"big_user", "operational_unit"} :
            /\ \A id \in DOMAIN StagedOf(k) : \E e \in InsertedOf(k) : e.id = id
            /\ \A e \in InsertedOf(k) :
                  LET u == StagedOf(k)[e.id] IN
                  /\ e.info.cep \in DOMAIN lookup
                  /\ e.info =
                        [cep |-> u.cep,
                         uf |-> u.uf,
                         locality |-> IF u.locality_id \in DOMAIN localities
                                      THEN localities[u.locality_id].name ELSE <<>>,
                         neighborhood |-> IF u.neighborhood_id \in DOMAIN neighborhoods
                                          THEN Some(neighborhoods[u.neighborhood_id].name)
                                          ELSE None,
                         address |-> u.address,
                         complement |-> Some(u.name),
                         type_ |-> IF k = "big_user" THEN "BigUser"
                                   ELSE "OperationalUnit"]

\* build() ran with a big user that has a street identifier and unresolved
\* foreign keys, and with an operational unit whose post-box flag is Yes and
\* whose locality and neighbourhood are staged; the lookup shows the unit.
C15_Witness ==
    /\ Built
    /\ \E e \in InsertedOf("big_user") :
          /\ big_users[e.id].street_id.some
          /\ e.info.locality = <<>>
          /\ e.info.neighborhood = None
          /\ e.info.complement = Some(Chars("Forum"))
    /\ \E e \in InsertedOf("operational_unit") :
          /\ operational_units[e.id].post_box_indicator = "Yes"
          /\ ~operational_units[e.id].street_id.some
          /\ e.info.locality = Chars("Rio")
          /\ e.info.neighborhood.some
          /\ e.info.address = Chars("Rua E 5")
          /\ lookup[e.info.cep].type_ = "OperationalUnit"

\* C16: build() emits one entry for every staged CPC; the entry carries the
\* CPC's postal code, the tag cpc, the CPC's address text and the name of
\* the staged locality (empty when it is not staged), and its neighbourhood
\* is absent whatever neighbourhoods are staged.
C16_CpcStage ==
    Built =>
        /\ \A id \in DOMAIN cpcs : \E e \in InsertedOf("cpc") : e.id = id
        /\ \A e \in InsertedOf("cpc") :
              LET c == cpcs[e.id] IN
              /\ e.info.cep = c.cep
              /\ lookup[c.cep].type_ = "Cpc"
              /\ e.info.type_ = "Cpc"
              /\ e.info.address = c.address
              /\ e.info.locality = (IF c.locality_id \in DOMAIN localities
                                    THEN localities[c.locality_id].name ELSE <<>>)
              /\ e.info.neighborhood = None

\* build() ran with neighbourhoods staged, a CPC whose locality is staged and
\* a CPC whose locality is not.
C16_Witness ==
    /\ Built
    /\ neighborhoods # EmptyMap
    /\ \E e \in InsertedOf("cpc") :
          /\ e.info.locality = Chars("Rio")
          /\ e.info.address = Chars("Quadra 1")
          /\ lookup[e.info.cep] = e.info
    /\ \E e \in InsertedOf("cpc") :
          /\ cpcs[e.id].locality_id \notin DOMAIN localities
          /\ e.info.locality = <<>>

\* C27: a call add_<kind>(c) stages every record of c under its identifier
\* in the map of that kind, in place of any record staged under the same
\* identifier, and leaves unchanged the other five maps and every staged
\* record of the kind whose identifier does not occur in c.
C27_EffectOfOneAdd ==
    [][Len(calls') = Len(calls) + 1 =>
        \A k \in Kinds : calls'[Len(calls')].kind = k =>
            LET c == calls'[Len(calls')].coll IN
            /\ \A j \in Kinds \ {k} : StagedOf(j)' = StagedOf(j)
            /\ DOMAIN StagedOf(k)' = DOMAIN StagedOf(k) \cup DOMAIN c
            /\ \A x \in DOMAIN c : StagedOf(k)'[x] = c[x]
            /\ \A x \in DOMAIN StagedOf(k) \ DOMAIN c : StagedOf(k)'[x] = StagedOf(k)[x]
            /\ lookup' = lookup /\ pc' = pc]_vars

\* The last call replaced the locality an earlier call had staged under the
\* same identifier, kept a locality its collection does not hold, and
\* another kind is staged.
C27_Witness ==
    /\ Len(calls) = 3
    /\ calls[3].kind = "locality"
    /\ \E i \in 1..2 :
          /\ calls[i].kind = "locality"
          /\ \E x \in DOMAIN calls[i].coll \cap DOMAIN calls[3].coll :
                /\ calls[i].coll[x] # calls[3].coll[x]
                /\ localities[x] = calls[3].coll[x]
          /\ \E x \in DOMAIN calls[i].coll \ DOMAIN calls[3].coll :
                localities[x] = calls[i].coll[x]
    /\ \E i \in 1..2 : calls[i].kind # "locality" /\ StagedOf(calls[i].kind) = calls[i].coll

\* The staged record an inserted entry was made from.
RecordOf(e) == StagedOf(e.src)[e.id]

\* The positions of the history at which a collection of kind k staging
\* identifier x was added.
AddedAt(k, x) == {i \in 1..Len(calls) : calls[i].kind = k /\ x \in DOMAIN calls[i].coll}

\* C26: foreign keys are resolved at build time against everything staged,
\* whatever the order of the add calls: the staged records are the added
\* ones, still holding identifiers only, and every street, big-user,
\* operational-unit and CPC entry names the locality and the neighbourhood
\* staged by the last call that added them, whether that call came before or
\* after the call that staged the referring record.
C26_ResolvedAtBuild ==
    /\ \A k \in Kinds : StagedOf(k) = Replay(calls, k)
    /\ Built =>
        \A e \in inserted : e.src \in {"address", "big_user", "operational_unit", "cpc"} =>
            LET r == RecordOf(e)
                ls == AddedAt("locality", r.locality_id)
                last == CHOOSE i \in ls : \A j \in ls : j <= i
            IN  /\ e.info.locality =
                     IF ls = {} THEN <<>> ELSE calls[last].coll[r.locality_id].name
                /\ e.src # "cpc" =>
                     LET n == NeighborhoodIdOf(e.src, r)
                         ns == AddedAt("neighborhood", n)
                         lastn == CHOOSE i \in ns : \A j \in ns : j <= i
                     IN  e.info.neighborhood =
                            IF ns = {} THEN None ELSE Some(calls[lastn].coll[n].name)

\* A built lookup with a street entry whose locality was staged after the
\* street and whose neighbourhood was staged before it, the entry naming both.
C26_Witness ==
    /\ Built
    /\ \E e \in inserted :
          /\ e.src = "address"
          /\ \E i \in AddedAt("address", e.id) :
                /\ AddedAt("locality", RecordOf(e).locality_id) # {}
                /\ \A j \in AddedAt("locality", RecordOf(e).locality_id) : j > i
                /\ \E j \in AddedAt("neighborhood", RecordOf(e).neighborhood_id_start) : j < i
          /\ e.info.locality # <<>>
          /\ e.info.neighborhood # None

\* The history without its add_neighborhoods calls.
WithoutNeighborhoods == SelectSeq(calls, LAMBDA c : c.kind # "neighborhood")

\* The postal codes carried by the records of kind k in map m.
CepsIn(k, m) == {CepOf(k, m[id]).val : id \in {x \in DOMAIN m : CepOf(k, m[x]).some}}

\* C28: neighbourhood records never produce entries.  build() inserts for
\* five of the six kinds only, each insert with the tag of its kind; the
\* postal codes of the lookup are those of the history with its
\* add_neighborhoods calls removed; and a builder holding only
\* neighbourhoods and localities without postal code builds an empty lookup.
C28_NoNeighborhoodEntries ==
    Built =>
        /\ \A e \in inserted : e.src \in EntryKinds /\ e.info.type_ = TagOf[e.src]
        /\ DOMAIN lookup =
              UNION {CepsIn(k, Replay(WithoutNeighborhoods, k)) : k \in EntryKinds}
        /\ \A cep \in DOMAIN lookup : \E k \in EntryKinds : Carrying(k, cep) # {}
        /\ ( /\ \A k \in EntryKinds \ {"locality"} : StagedOf(k) = EmptyMap
             /\ \A id \in DOMAIN localities : ~localities[id].cep.some )
           => lookup = EmptyMap /\ inserted = {}

\* build() ran on a builder holding two neighbourhoods and one locality
\* without postal code, and the lookup is empty.
C28_Witness ==
    /\ Built
    /\ Cardinality(DOMAIN neighborhoods) = 2
    /\ DOMAIN localities = {1}
    /\ ~localities[1].cep.some
    /\ \A k \in EntryKinds \ {"locality"} : StagedOf(k) = EmptyMap
    /\ lookup = EmptyMap
    /\ Len(calls) > Len(WithoutNeighborhoods)

(***************************************************************************)
(* Properties of the text functions (SpecText)                             *)
(***************************************************************************)
\* C11: Uf::from_str trims whitespace, then fails with Empty iff the trimmed
\* text is empty, with WrongLength(k) iff it is not empty and its length k in
\* characters is not two, with InvalidCode iff it has two characters that
\* are not one of the 27 codes, letter case apart, and otherwise returns the
\* code, the same for every letter-case variant.
C11_UfFromStr ==
    idOp = "Uf::from_str" =>
        LET t == Trimmed(idArg) IN
        IF t = <<>> THEN idRes.tag = "Err" /\ idRes.err = "Empty"
        ELSE IF Len(t) # 2
        THEN idRes.tag = "Err" /\ idRes.err = "WrongLength" /\ idRes.len = Len(t)
        ELSE IF ToAsciiUpper(t) \notin UfCodes
        THEN idRes.tag = "Err" /\ idRes.err = "InvalidCode"
        ELSE idRes.tag = "Ok" /\ idRes.v = ToAsciiUpper(t)

\* C17: required_field(f, name, n) fails with EmptyField {name, n} exactly
\* when every character of f is whitespace (f is empty after trimming) and
\* returns f unchanged otherwise; optional_field(f) never fails, is None in
\* exactly that case and Some(f), f unchanged, otherwise.
C17_FieldHelpers ==
    /\ idOp = "required_field" =>
          LET f == idArg.field IN
          IF \A i \in 1..Len(f) : f[i] \in WhiteSpace
          THEN idRes = [tag |-> "Err", err |-> "EmptyField",
                        field_name |-> idArg.field_name,
                        line_number |-> idArg.line_number]
          ELSE idRes = [tag |-> "Ok", v |-> f]
    /\ idOp = "optional_field" =>
          LET f == idArg IN
          IF \A i \in 1..Len(f) : f[i] \in WhiteSpace
          THEN idRes = None
          ELSE idRes = Some(f)

\* required_field returned a field that has whitespace at both ends.
C17_Witness ==
    /\ idOp = "required_field"
    /\ idRes.tag = "Ok"
    /\ Len(idArg.field) = 3
    /\ idArg.field[1] \in WhiteSpace
    /\ idArg.field[3] \in WhiteSpace

\* The number of occurrences of character c in s.
Count(s, c) == Cardinality({i \in 1..Len(s) : s[i] = c})

\* C18: parse_line returns, in order, exactly one field more than the line
\* has separators; no field holds a separator, and joining the fields with
\* the separator gives back the line, so nothing is trimmed, merged or
\* dropped: a trailing separator gives a trailing empty field and two
\* consecutive separators an empty field between them.
C18_ParseLineSplits ==
    idOp = "parse_line" =>
        /\ Len(idRes) = Count(idArg, FIELD_SEPARATOR) + 1
        /\ \A k \in 1..Len(idRes) : Count(idRes[k], FIELD_SEPARATOR) = 0
        /\ Join(idRes, FIELD_SEPARATOR) = idArg
        /\ (idArg # <<>> /\ idArg[Len(idArg)] = FIELD_SEPARATOR) =>
                idRes[Len(idRes)] = <<>>
        /\ \A i \in 1..(Len(idArg) - 1) :
                (idArg[i] = FIELD_SEPARATOR /\ idArg[i + 1] = FIELD_SEPARATOR) =>
                    idRes[Count(SubSeq(idArg, 1, i), FIELD_SEPARATOR) + 1] = <<>>

\* parse_line split " @a@@": a field of one space kept, two consecutive
\* separators, and a line that ends with a separator.
C18_Witness ==
    /\ idOp = "parse_line"
    /\ idArg = Chars(" @a@@")
    /\ idRes = <<Chars(" "), Chars("a"), <<>>, <<>>>>

\* The code points a byte text holds when read as UTF-8 (sequences of one
\* and two bytes; a byte that starts no such sequence reads as U+FFFD).
RECURSIVE CodePoints(_)
CodePoints(u) ==
    IF u = <<>> THEN <<>>
    ELSE IF u[1] < 128 THEN <<u[1]>> \o CodePoints(Tail(u))
    ELSE IF u[1] \in 194..223 /\ Len(u) >= 2 /\ u[2] \in 128..191
         THEN <<(u[1] - 192) * 64 + (u[2] - 128)>> \o CodePoints(SubSeq(u, 3, Len(u)))
    ELSE <<65533>> \o CodePoints(Tail(u))

\* C19: from_iso8859_1 succeeds on every byte sequence, and the text of the
\* parser it returns holds as many code points as there are input bytes,
\* the i-th being the code point whose number is the i-th byte.
C19_DecoderTotal ==
    idOp = "from_iso8859_1" =>
        /\ idRes.tag = "Ok"
        /\ idRes.separator = "@"
        /\ Len(CodePoints(idRes.content)) = Len(idArg)
        /\ \A i \in 1..Len(idArg) : CodePoints(idRes.content)[i] = idArg[i]

\* from_iso8859_1 decoded bytes of the upper half next to an ASCII byte: the
\* text takes more bytes than the input has.
C19_Witness ==
    /\ idOp = "from_iso8859_1"
    /\ idArg = <<227, 65, 255>>
    /\ idRes.tag = "Ok"
    /\ idRes.content = <<195, 163, 65, 195, 191>>

BlankField(f) == \A i \in 1..Len(f) : f[i] \in WhiteSpace

\* The number a text of decimal digits denotes.
RECURSIVE DecimalValue(_)
DecimalValue(d) ==
    IF d = <<>> THEN 0
    ELSE DecimalValue(SubSeq(d, 1, Len(d) - 1)) * 10 + DigitVal(d[Len(d)])

\* The field denotes an identifier: a number other than zero.
DenotesId(f) ==
    LET d == Unsigned(Trimmed(f)) IN
    IsDecimal(d) /\ FitsU32(d) /\ Canonical(d) # <<"0">>

IdValueOf(f) == DecimalValue(Canonical(Unsigned(Trimmed(f))))

\* The codes of LOC_IN_SIT and LOC_IN_TIPO_LOC.
SituationOfCode ==
    [c \in {"0", "1", "2", "3"} |->
        CASE c = "0" -> "NotCoded" [] c = "1" -> "Coded"
          [] c = "2" -> "DistrictOrVillage" [] c = "3" -> "CodingInProgress"]

TypeOfCode ==
    [c \in {"D", "M", "P"} |->
        CASE c = "D" -> "District" [] c = "M" -> "Municipality" [] c = "P" -> "Village"]

\* The five required fields of a locality line are valid.
RequiredValid(f) ==
    /\ DenotesId(f[1])
    /\ ToAsciiUpper(Trimmed(f[2])) \in UfCodes
    /\ ~BlankField(f[3])
    /\ \E c \in DOMAIN SituationOfCode : Trimmed(f[5]) = <<c>>
    /\ \E c \in DOMAIN TypeOfCode : ToAsciiUpper(Trimmed(f[6])) = <<c>>

\* An optional text field: absent iff the source field is blank, otherwise
\* the field text unchanged.
OptionalText(f, v) == IF BlankField(f) THEN v = None ELSE v = Some(f)

\* The record holds what the fields of its line say.
LocalityRoundTrip(f, rec) ==
    /\ rec.id = IdValueOf(f[1])
    /\ rec.uf = ToAsciiUpper(Trimmed(f[2]))
    /\ rec.name = f[3]
    /\ rec.situation = SituationOfCode[Trimmed(f[5])[1]]
    /\ rec.locality_type = TypeOfCode[ToAsciiUpper(Trimmed(f[6]))[1]]
    /\ OptionalText(f[4], rec.cep)
    /\ IF BlankField(f[7]) THEN rec.subordinate_to = None
       ELSE rec.subordinate_to = Some(IdValueOf(f[7]))
    /\ OptionalText(f[8], rec.abbreviated_name)
    /\ OptionalText(f[9], rec.ibge_code)

\* C20 as stated: every locality line of 9 fields whose required fields are
\* valid parses, and the record holds the value of every field: identifier,
\* state and enumerations by their codes, each optional field absent iff its
\* source field is blank, the postal code whatever the situation.
C20_ValidLinesRoundTrip ==
    (idOp = "parse_locality_line" /\ RequiredValid(idArg.fields)) =>
        /\ idRes.tag = "Ok"
        /\ LocalityRoundTrip(idArg.fields, idRes.rec)

\* C20 amended: every locality line of 9 fields whose required fields are
\* valid and whose parent field is blank or denotes an identifier parses;
\* the record holds the identifier field 1 denotes, the state and the
\* enumerations of the codes of fields 2, 5 and 6, and the name unchanged;
\* postal code, abbreviated name and external code are absent iff their
\* field is blank and otherwise the field text unchanged; the parent is
\* absent iff its field is blank and otherwise the identifier the field
\* denotes; the postal code is recorded whatever the situation.  A line
\* whose required fields are valid and whose parent field is neither blank
\* nor an identifier fails with InvalidValue for LOC_NU_SUB.
C20_ValidLocalityLine ==
    (idOp = "parse_locality_line" /\ RequiredValid(idArg.fields)) =>
        IF BlankField(idArg.fields[7]) \/ DenotesId(idArg.fields[7])
        THEN /\ idRes.tag = "Ok"
             /\ LocalityRoundTrip(idArg.fields, idRes.rec)
        ELSE /\ idRes.tag = "Err"
             /\ idRes.err = "InvalidValue"
             /\ idRes.field_name = "LOC_NU_SUB"

\* A line with padded identifier and parent, a postal code next to the
\* situation Coded and a padded abbreviated name was parsed.
C20_Witness ==
    /\ idOp = "parse_locality_line"
    /\ idRes.tag = "Ok"
    /\ idArg.fields[1] = Chars(" 07 ") /\ idRes.rec.id = 7
    /\ idRes.rec.cep = Some(Chars("69900000")) /\ idRes.rec.situation = "Coded"
    /\ idArg.fields[7] = Chars(" 3 ") /\ idRes.rec.subordinate_to = Some(3)
    /\ idRes.rec.abbreviated_name = Some(Chars(" RB "))
    /\ idRes.rec.ibge_code = None

FlagOfCode == [c \in {"S", "N"} |-> IF c = "S" THEN "Yes" ELSE "No"]

\* The codes an enumeration accepts, with the value of each.
CodesOf(conv) ==
    CASE conv = "Situation" -> SituationOfCode
      [] conv = "LocalityType" -> TypeOfCode
      [] OTHER -> FlagOfCode

\* C21: from_str of an enumeration trims the text; the locality type accepts
\* exactly D, M, P and the two flags exactly S (Yes) and N (No), in either
\* case; the locality situation accepts exactly the digits 0, 1, 2, 3; any
\* other text, the empty one included, fails with InvalidCode carrying the
\* rejected text, be it the text as given or the text after trimming.
C21_EnumerationParsing ==
    idOp = "enum_from_str" =>
        LET t == Trimmed(idArg.text)
            m == IF idArg.conv = "Situation" THEN t ELSE ToAsciiUpper(t)
            codes == CodesOf(idArg.conv)
        IN  IF \E c \in DOMAIN codes : m = <<c>>
            THEN idRes.tag = "Ok" /\ idRes.v = codes[m[1]]
            ELSE /\ idRes.tag = "Err" /\ idRes.err = "InvalidCode"
                 /\ idRes.text \in {idArg.text, t}

\* What from_str does: the accepted codes are those of C21, and the error of
\* a letter-coded enumeration carries the trimmed text in upper case.
C21_CarriesFoldedText ==
    idOp = "enum_from_str" =>
        LET t == Trimmed(idArg.text)
            m == IF idArg.conv = "Situation" THEN t ELSE ToAsciiUpper(t)
            codes == CodesOf(idArg.conv)
        IN  IF \E c \in DOMAIN codes : m = <<c>>
            THEN idRes.tag = "Ok" /\ idRes.v = codes[m[1]]
            ELSE idRes.tag = "Err" /\ idRes.err = "InvalidCode" /\ idRes.text = m

(***************************************************************************)
(* Properties of the lookup queries and of the postal-code keys            *)
(* (SpecLookup)                                                            *)
(***************************************************************************)
\* The entries of the lookup that satisfy Keep.
EntriesWhere(Keep(_)) == {lookup[c] : c \in {x \in DOMAIN lookup : Keep(lookup[x])}}

\* The sequence lists the entries of the set, each once.
Lists(seq, set) == Range(seq) = set /\ Len(seq) = Cardinality(set)

C22_QueryResults ==
    /\ idOp = "lookup" =>
          IF \E c \in DOMAIN lookup : c = idArg
          THEN idRes = Some(lookup[idArg]) ELSE idRes = None
    /\ idOp = "by_uf" =>
          Lists(idRes, EntriesWhere(LAMBDA info : info.uf = idArg))
    /\ idOp = "by_locality" =>
          Lists(idRes, EntriesWhere(LAMBDA info : info.locality = idArg))
    /\ idOp = "len" => idRes = Cardinality(DOMAIN lookup)

\* C22: on a lookup build() returned, lookup(c) returns the entry stored
\* under c iff there is one and nothing otherwise, by_uf(u) returns exactly
\* the entries whose state is u, by_locality(n) exactly the entries whose
\* locality name is n, character for character, and len() the number of
\* entries; a query leaves the lookup, and so its len(), unchanged.
C22_Queries ==
    /\ []C22_QueryResults
    /\ [][(idOp' # idOp /\ idOp' \in {"lookup", "by_uf", "by_locality", "len"}) =>
            /\ lookup' = lookup
            /\ pc' = pc
            /\ Cardinality(DOMAIN lookup') = Cardinality(DOMAIN lookup)]_vars

\* by_locality("Rio") returned an entry and left out an entry of " Rio ".
C22_Witness ==
    /\ idOp = "by_locality"
    /\ idArg = Chars("Rio")
    /\ Len(idRes) >= 1
    /\ \E c \in DOMAIN lookup : lookup[c].locality = Chars(" Rio ")
    /\ \E c \in DOMAIN lookup : lookup[c].uf = Chars("SP")

(***************************************************************************)
(* Properties of the six line parsers (SpecText)                           *)
(***************************************************************************)
\* The number of fields a line of each kind has.
ExpectedCount ==
    [locality |-> 9, neighborhood |-> 5, address |-> 11, big_user |-> 9,
     operational_unit |-> 10, cpc |-> 6]

\* The positions at which the fields differ from those of the valid line.
Defects(k, f) == {i \in 1..ExpectedCount[k] : f[i] # BaseFields[k][i]}

\* What the parser returns for the valid line with field i alone replaced.
Single(k, f, i, n) ==
    ParseKindLine(k, Join([BaseFields[k] EXCEPT ![i] = f[i]], "@"), n)

\* C24: when a line with the correct field count has several fields that
\* would each be rejected (blank required field, invalid identifier, state
\* or enumeration code), the parser returns the error of the rejected field
\* with the lowest position, and it succeeds when no field would be rejected.
C24_PositionalErrorOrder ==
    (idOp = "parse_kind_line" /\ Len(idArg.fields) = ExpectedCount[idArg.kind]) =>
        LET k == idArg.kind
            f == idArg.fields
            n == idArg.line_number
            rejected == {i \in Defects(k, f) : Single(k, f, i, n).tag = "Err"}
        IN  IF rejected = {} THEN idRes.tag = "Ok"
            ELSE LET first == CHOOSE i \in rejected : \A j \in rejected : i <= j
                 IN  /\ idRes = Single(k, f, first, n)
                     /\ idRes.err \in {"EmptyField", "InvalidValue"}

\* A locality line with an invalid type (field 6) and an invalid parent
\* (field 7) failed on the type.
C24_Witness ==
    /\ idOp = "parse_kind_line"
    /\ idArg.kind = "locality"
    /\ Len(idArg.fields) = 9
    /\ idArg.fields[6] = Chars("x")
    /\ idArg.fields[7] = Chars("0")
    /\ idRes.tag = "Err"
    /\ idRes.err = "InvalidValue"
    /\ idRes.field_name = "LOC_IN_TIPO_LOC"

\* C25: a line whose field count differs from the fixed count of its kind
\* fails with FieldCount, carrying the fixed count, the count found and the
\* line number, whatever its fields hold; EmptyField and InvalidValue are
\* never returned for such a line.
C25_ArityCheckFirst ==
    (idOp = "parse_kind_line" /\ Len(idArg.fields) # ExpectedCount[idArg.kind]) =>
        idRes = [tag |-> "Err", err |-> "FieldCount",
                 expected |-> ExpectedCount[idArg.kind],
                 got |-> Len(idArg.fields),
                 line_number |-> idArg.line_number]

\* A line with one field too many, a non-numeric identifier and a blank
\* state code failed with FieldCount.
C25_Witness ==
    /\ idOp = "parse_kind_line"
    /\ Len(idArg.fields) = ExpectedCount[idArg.kind] + 1
    /\ idArg.fields[1] = Chars("x")
    /\ idArg.fields[2] = Chars(" ")
    /\ idRes.err = "FieldCount"

\* The optional identifier field of a kind: its position, its name and the
\* record field that holds it.
OptionalIdOf ==
    [locality |-> [pos |-> 7, name |-> "LOC_NU_SUB", into |-> "subordinate_to"],
     address |-> [pos |-> 5, name |-> "BAI_NU_FIM", into |-> "neighborhood_id_end"],
     big_user |-> [pos |-> 5, name |-> "LOG_NU", into |-> "street_id"],
     operational_unit |-> [pos |-> 5, name |-> "LOG_NU", into |-> "street_id"]]

\* The identifiers a record holds.
IdsOf(rec) ==
    {rec[x] : x \in DOMAIN rec \cap {"id", "locality_id", "neighborhood_id",
                                     "neighborhood_id_start"}}
    \cup {rec[x].val : x \in {y \in DOMAIN rec \cap {"subordinate_to", "street_id",
                                                     "neighborhood_id_end"} :
                                rec[y].some}}

\* C30: in a line that is valid but for its optional identifier field
\* (LOC_NU_SUB, BAI_NU_FIM, LOG_NU), a blank field gives no value; a
\* non-blank field that is zero or is not a decimal number (digits, an
\* optional plus sign before them, at most 4294967295) makes the line fail
\* with InvalidValue carrying the field's name, its raw text, a reason and
\* the line number; any other field gives the identifier it denotes.  Every
\* identifier of a parsed record, required or optional, is other than 0.
C30_OptionalIdentifier ==
    idOp = "parse_kind_line" =>
        /\ idRes.tag = "Ok" => \A v \in IdsOf(idRes.rec) : v # 0
        /\ (/\ idArg.kind \in DOMAIN OptionalIdOf
            /\ Len(idArg.fields) = ExpectedCount[idArg.kind]
            /\ Defects(idArg.kind, idArg.fields)
                    \subseteq {OptionalIdOf[idArg.kind].pos}) =>
              LET o == OptionalIdOf[idArg.kind]
                  t == idArg.fields[o.pos]
              IN  IF BlankField(t)
                  THEN idRes.tag = "Ok" /\ idRes.rec[o.into] = None
                  ELSE IF DenotesId(t)
                  THEN idRes.tag = "Ok" /\ idRes.rec[o.into] = Some(IdValueOf(t))
                  ELSE /\ idRes.tag = "Err"
                       /\ idRes.err = "InvalidValue"
                       /\ idRes.field_name = o.name
                       /\ idRes.value = t
                       /\ idRes.reason.tag = "Err"
                       /\ idRes.line_number = idArg.line_number

\* A street line whose ending neighbourhood is "0" failed on BAI_NU_FIM.
C30_Witness ==
    /\ idOp = "parse_kind_line"
    /\ idArg.kind = "address"
    /\ Len(idArg.fields) = 11
    /\ Defects("address", idArg.fields) = {5}
    /\ idArg.fields[5] = Chars("0")
    /\ idRes.tag = "Err"
    /\ idRes.field_name = "BAI_NU_FIM"
    /\ idRes.reason.err = "Zero"

\* The position of the postal-code field in a line of each kind that has one.
CepField == [locality |-> 4, address |-> 8, big_user |-> 8, operational_unit |-> 8, cpc |-> 6]

\* Two different texts that are equal once their surrounding whitespace is
\* removed.
DifferByWhitespace(a, b) == a # b /\ Trim(a) = Trim(b)

\* C29: postal codes are carried and compared as exact, untrimmed text.  A
\* parsed record holds the postal-code field of its line character for
\* character when the field is not blank; build() stores every entry under
\* the exact text of its record's postal code, so two records whose postal
\* codes differ only by surrounding whitespace give two entries, each made
\* from a record carrying exactly its key; and lookup() finds an entry only
\* for the exact text stored.
C29_ExactPostalCodes ==
    /\ (out # NotCalled /\ out.tag = "Ok" /\ kind \in EntryKinds) =>
          \A id \in DOMAIN out.coll :
              \E i \in DOMAIN phys :
                  LET f == ParseLine(phys[i]) IN
                  /\ DenotesId(f[1]) /\ IdValueOf(f[1]) = id
                  /\ CepOf(kind, out.coll[id]) =
                        IF BlankField(f[CepField[kind]]) THEN None
                        ELSE Some(f[CepField[kind]])
    /\ Built =>
          /\ DOMAIN lookup = CarriedCeps
          /\ \A a \in CarriedCeps :
                /\ lookup[a].cep = a
                /\ \E k \in EntryKinds : \E id \in Carrying(k, a) :
                      lookup[a].type_ = TagOf[k] /\ lookup[a].uf = StagedOf(k)[id].uf
          /\ \A a, b \in CarriedCeps : DifferByWhitespace(a, b) => lookup[a] # lookup[b]
    /\ idOp = "lookup" =>
          /\ idRes.some <=> idArg \in DOMAIN lookup
          /\ Built => (idRes.some <=> idArg \in CarriedCeps)
          /\ idRes.some => idRes.val.cep = idArg
          /\ (idArg \notin DOMAIN lookup /\ \E a \in DOMAIN lookup : DifferByWhitespace(a, idArg))
                => idRes = None

\* Four records carry 69900000 with different surrounding whitespace, the
\* lookup holds the four entries, and lookup("69900000") returned the big
\* user's entry, not the CPC's.
C29_Witness ==
    /\ Built
    /\ {Chars("69900000"), Chars(" 69900000"), Chars("69900000 "), Chars(" 69900000 ")}
          \subseteq DOMAIN lookup
    /\ lookup[Chars(" 69900000 ")].type_ = "Cpc"
    /\ lookup[Chars("69900000 ")].type_ = "Street"
    /\ lookup[Chars(" 69900000")].type_ = "UncodedLocality"
    /\ idOp = "lookup"
    /\ idArg = Chars("69900000")
    /\ idRes.some
    /\ idRes.val.type_ = "BigUser"

====
